---------------------------- MODULE Spec2Model ----------------------------
(***************************************************************************)
(* A model of the prospecting assistant's web scraper (src/src/scraper.py) *)
(* and of the collaborators it hands its corpus to.                        *)
(*                                                                         *)
(* A string is the sequence of its characters, each a one-character string; *)
(* the em dash and the en dash are the characters "EM_DASH" and "EN_DASH".  *)
(*                                                                         *)
(* A markup value is what BeautifulSoup's parse of it exposes: the         *)
(* sequence of its elements in document order, each with its tag, the tag  *)
(* of the container it sits in, its own text and its attributes.           *)
(***************************************************************************)
EXTENDS Integers, Sequences, FiniteSets

VARIABLES
    pc,             \* position of scrape_website
    seed,           \* the url argument of scrape_website
    url,            \* the normalized url
    use_pw,         \* use_playwright_fallback
    sink,           \* what progress_callback does with a message
    homepage_html,  \* scrape_website's local of that name
    homepage_text,
    company_name,
    pages,          \* list of ScrapedPage
    all_emails,     \* the ordered set all_emails
    linked_pages,   \* the list _discover_links returned
    idx,            \* position of the for loop over linked_pages
    result,         \* the ScrapedWebsite returned
    events,         \* the calls made so far: fetch, render, sleep, discover
    h_fn,           \* the function a direct call applies
    h_arg,          \* its argument
    h_ret,          \* its return value
    agent_pc,       \* position of OutreachAgent.run_pipeline
    to_address,     \* the to_address argument of run_pipeline
    auto_send,      \* its auto_send argument
    pipeline,       \* the PipelineResult run_pipeline builds and returns
    calls,          \* the phases run_pipeline has invoked so far
    batch_pc,       \* position of OutreachAgent.run_batch
    batch_urls,     \* the urls argument of run_batch
    results,        \* the list run_batch builds and returns
    log_file        \* what logs/outreach_log.json holds

vars == <<pc, seed, url, use_pw, sink, homepage_html, homepage_text,
          company_name, pages, all_emails, linked_pages, idx, result, events,
          h_fn, h_arg, h_ret,
          agent_pc, to_address, auto_send, pipeline, calls,
          batch_pc, batch_urls, results, log_file>>

crawlVars == <<pc, seed, url, use_pw, sink, homepage_html, homepage_text,
               company_name, pages, all_emails, linked_pages, idx, result,
               events>>

callVars == <<h_fn, h_arg, h_ret>>

agentVars == <<agent_pc, to_address, auto_send, pipeline, calls>>

batchVars == <<batch_pc, batch_urls, results>>

-----------------------------------------------------------------------------
(* Strings *)

\* len(s)
SLen(s) == Len(s)

\* 1, ..., n
Indices(n) == [i \in 1..n |-> i]

\* [F(x) for x in xs]
Map(F(_), xs) == [i \in 1..Len(xs) |-> F(xs[i])]

\* c * n
Rep(c, n) == [i \in 1..n |-> c]

\* a + b
Cat(a, b) == a \o b

\* s[:k], k >= 0
Take(s, k) == SubSeq(s, 1, IF k < Len(s) THEN k ELSE Len(s))

\* s[k:], k >= 0
Drop(s, k) == SubSeq(s, k + 1, Len(s))

\* The number of characters at the start of s that pass In
Lead(s, In(_)) ==
    LET Out(i) == ~In(s[i])
        out == SelectSeq(Indices(Len(s)), Out)
    IN IF out = <<>> THEN Len(s) ELSE out[1] - 1

\* The number of characters at the end of s that pass In
Trail(s, In(_)) ==
    LET Out(i) == ~In(s[i])
        out == SelectSeq(Indices(Len(s)), Out)
    IN IF out = <<>> THEN Len(s) ELSE Len(s) - out[Len(out)]

\* str.strip() and str.splitlines() treat these as white space
Whitespace == {" ", "\t", "\n"}

IsSpace(c) == c \in Whitespace

LStrip(s) == SubSeq(s, Lead(s, IsSpace) + 1, Len(s))

RStrip(s) == SubSeq(s, 1, Len(s) - Trail(s, IsSpace))

\* s.strip()
Strip(s) == RStrip(LStrip(s))

\* s.rstrip(c)
RStripChar(s, c) ==
    LET Is(x) == x = c IN SubSeq(s, 1, Len(s) - Trail(s, Is))

RECURSIVE FlattenRange(_, _, _)
\* ss[lo] + ... + ss[hi] for a sequence ss of sequences
FlattenRange(ss, lo, hi) ==
    IF lo > hi THEN <<>>
    ELSE IF lo = hi THEN ss[lo]
    ELSE FlattenRange(ss, lo, (lo + hi) \div 2)
         \o FlattenRange(ss, (lo + hi) \div 2 + 1, hi)

Flatten(ss) == FlattenRange(ss, 1, Len(ss))

\* s.split(c): the pieces of s between the occurrences of the character c
SplitOn(s, c) ==
    LET IsSep(i) == s[i] = c
        seps == SelectSeq(Indices(Len(s)), IsSep)
        n == Len(seps)
    IN [k \in 1..(n + 1) |->
           SubSeq(s, IF k = 1 THEN 1 ELSE seps[k - 1] + 1,
                     IF k > n THEN Len(s) ELSE seps[k] - 1)]

\* s.splitlines(): as split on the line break, without the empty piece
\* that a final line break (or an empty string) leaves
SplitLines(s) ==
    LET parts == SplitOn(s, "\n") IN
    IF parts[Len(parts)] = <<>> THEN SubSeq(parts, 1, Len(parts) - 1)
    ELSE parts

\* sep.join(parts)
Join(parts, sep) ==
    IF parts = <<>> THEN <<>>
    ELSE Flatten([i \in 1..(2 * Len(parts) - 1) |->
                     IF i % 2 = 1 THEN parts[(i + 1) \div 2] ELSE sep])

-----------------------------------------------------------------------------
(* Markup *)

\* An element of a parsed page.  ctx is the tag of the container the element
\* sits in; an attribute the element does not carry is the empty string.
Element(tag, ctx, text, href) ==
    [tag |-> tag, ctx |-> ctx, text |-> text, href |-> href,
     property |-> <<>>, content |-> <<>>]

\* <meta property=... content=...>
Meta(property, content) ==
    [tag |-> "meta", ctx |-> "head", text |-> <<>>, href |-> <<>>,
     property |-> property, content |-> content]

\* A markup string (html is what the parser finds in it) and the None value.
\* The empty string is the markup with no element at all.
Markup(els) == [kind |-> "str", dom |-> els]
None == [kind |-> "None", dom |-> <<>>]

\* Python's truth value of an Optional[str]
Truthy(v) == v.kind = "str" /\ v.dom # <<>>

\* BeautifulSoup(html, "html.parser")
Soup(html) == html.dom

STRIP_ELEMENTS ==
    {"script", "style", "nav", "footer", "header", "noscript",
     "iframe", "svg", "form", "button"}

MAX_CONTENT_LENGTH == 5000

TRUNCATION_MARKER ==
    <<"\n", ".", ".", ".", " ", "[", "c", "o", "n", "t", "e", "n", "t",
          " ", "t", "r", "u", "n", "c", "a", "t", "e", "d", "]">>

\* The elements left once every STRIP_ELEMENTS tag is decomposed
Decomposed(html) ==
    LET Kept(e) == e.tag \notin STRIP_ELEMENTS /\ e.ctx \notin STRIP_ELEMENTS
    IN SelectSeq(html, Kept)

\* soup.get_text(separator="\n", strip=True): the stripped, non-empty text
\* nodes joined by line breaks
GetText(els) ==
    LET stripped == [i \in 1..Len(els) |-> Strip(els[i].text)]
        NonEmpty(t) == t # <<>>
    IN Join(SelectSeq(stripped, NonEmpty), <<"\n">>)

\* The lines kept when the test is len(line) > 1
CleanedLinesOverOne(text) ==
    LET raw == SplitLines(text)
        lines == [i \in 1..Len(raw) |-> Strip(raw[i])]
        NonEmpty(l) == l # <<>>
        Long(l) == SLen(l) > 1
    IN SelectSeq(SelectSeq(lines, NonEmpty), Long)

\* The lines _extract_text keeps: stripped, non-empty, longer than 2
CleanedLines(text) ==
    LET raw == SplitLines(text)
        lines == [i \in 1..Len(raw) |-> Strip(raw[i])]
        NonEmpty(l) == l # <<>>
        Long(l) == SLen(l) > 2
    IN SelectSeq(SelectSeq(lines, NonEmpty), Long)

\* text[:MAX_CONTENT_LENGTH + 1] + marker
TruncateOnePast(text) ==
    IF SLen(text) > MAX_CONTENT_LENGTH
    THEN Cat(Take(text, MAX_CONTENT_LENGTH + 1), TRUNCATION_MARKER)
    ELSE text

\* text[:MAX_CONTENT_LENGTH] + "\n... [content truncated]" when too long
Truncate(text) ==
    IF SLen(text) > MAX_CONTENT_LENGTH
    THEN Cat(Take(text, MAX_CONTENT_LENGTH), TRUNCATION_MARKER)
    ELSE text

\* _extract_text(html)
ExtractText(html) ==
    Truncate(Join(CleanedLines(GetText(Decomposed(html))), <<"\n">>))

-----------------------------------------------------------------------------
(* More string operations *)

\* s.startswith(p)
StartsWith(s, p) == Len(p) <= Len(s) /\ SubSeq(s, 1, Len(p)) = p

\* s.endswith(p)
EndsWith(s, p) ==
    Len(p) <= Len(s) /\ SubSeq(s, Len(s) - Len(p) + 1, Len(s)) = p

\* s[i - 1:].startswith(sub)
OccursAt(s, sub, i) ==
    i + Len(sub) - 1 <= Len(s) /\ SubSeq(s, i, i + Len(sub) - 1) = sub

\* sub in s
Contains(s, sub) == \E i \in 1..(Len(s) + 1) : OccursAt(s, sub, i)

\* s.find(sub): the index of the first occurrence of sub, -1 if there is none
Find(s, sub) ==
    LET At(i) == OccursAt(s, sub, i)
        found == SelectSeq(Indices(Len(s) + 1), At)
    IN IF found = <<>> THEN -1 ELSE found[1] - 1

\* s.split(sep)[0]
BeforeFirst(s, sep) == IF Contains(s, sep) THEN Take(s, Find(s, sep)) ELSE s

\* s.split(sep, 1)[1], for a sep that occurs in s
AfterFirst(s, sep) == Drop(s, Find(s, sep) + SLen(sep))

LowerOf ==
    [A |-> "a", B |-> "b", C |-> "c", D |-> "d", E |-> "e", F |-> "f",
     G |-> "g", H |-> "h", I |-> "i", J |-> "j", K |-> "k", L |-> "l",
     M |-> "m", N |-> "n", O |-> "o", P |-> "p", Q |-> "q", R |-> "r",
     S |-> "s", T |-> "t", U |-> "u", V |-> "v", W |-> "w", X |-> "x",
     Y |-> "y", Z |-> "z"]

UpperLetters == DOMAIN LowerOf
LowerLetters == {LowerOf[c] : c \in UpperLetters}
Letters == UpperLetters \cup LowerLetters
Digits == {"0", "1", "2", "3", "4", "5", "6", "7", "8", "9"}

LowerChar(c) == IF c \in UpperLetters THEN LowerOf[c] ELSE c
UpperChar(c) ==
    IF c \in LowerLetters THEN CHOOSE u \in UpperLetters : LowerOf[u] = c
    ELSE c

\* s.lower()
Lower(s) == [i \in 1..Len(s) |-> LowerChar(s[i])]

\* s.upper()
Upper(s) == [i \in 1..Len(s) |-> UpperChar(s[i])]

\* s.capitalize(): the first character upper-cased, the rest lower-cased
Capitalize(s) == Cat(Upper(Take(s, 1)), Lower(Drop(s, 1)))

RECURSIVE ReplaceAll(_, _, _)
\* s.replace(old, new), old not empty
ReplaceAll(s, old, new) ==
    IF ~Contains(s, old) THEN s
    ELSE LET i == Find(s, old) IN
         Cat(Cat(Take(s, i), new),
             ReplaceAll(Drop(s, i + SLen(old)), old, new))

\* The longest prefix of s with no character in cs
SpanNotIn(s, cs) ==
    LET Out(c) == c \notin cs IN SubSeq(s, 1, Lead(s, Out))

-----------------------------------------------------------------------------
(* _fetch_page *)

\* The exception classes of requests.exceptions that session.get and
\* raise_for_status raise, each with the classes it derives from.
ExceptionBases ==
    [Timeout          |-> {"Timeout", "RequestException"},
     ConnectTimeout   |-> {"ConnectTimeout", "Timeout", "ConnectionError",
                           "RequestException"},
     ConnectionError  |-> {"ConnectionError", "RequestException"},
     HTTPError        |-> {"HTTPError", "RequestException"},
     TooManyRedirects |-> {"TooManyRedirects", "RequestException"}]

\* The except clauses without the last
FetchHandlersNarrow == <<"Timeout", "HTTPError">>

\* The except clauses of _fetch_page, in order
FetchHandlers == <<"Timeout", "HTTPError", "RequestException">>

\* What the network does with one request: session.get raises exc (or
\* "none"), or answers with a status, a Content-Type header ("" when the
\* header is missing) and a body.
Response(exc, status, content_type, text) ==
    [exc |-> exc, status |-> status, content_type |-> content_type,
     text |-> text]

\* The exception the try block of _fetch_page ends with, "none" if it returns:
\* session.get's own, or raise_for_status's HTTPError for a 4xx/5xx status.
FetchRaises(resp) ==
    IF resp.exc # "none" THEN resp.exc
    ELSE IF resp.status >= 400 /\ resp.status < 600 THEN "HTTPError"
    ELSE "none"

\* The try block's value when nothing is raised
FetchBody(resp) ==
    IF /\ ~Contains(resp.content_type,
                    <<"t","e","x","t","/","h","t","m","l">>)
       /\ ~Contains(resp.content_type,
                    <<"a","p","p","l","i","c","a","t","i","o","n","/",
                          "x","h","t","m","l">>)
    THEN None
    ELSE resp.text

\* An exception is caught when some except clause names one of its classes
FetchCaught(exc) ==
    \E i \in 1..Len(FetchHandlers) : FetchHandlers[i] \in ExceptionBases[exc]

\* _fetch_page(url, session) on the network's response: what it returns, or
\* the exception it lets through
FetchPage(resp) ==
    LET exc == FetchRaises(resp) IN
    IF exc = "none" THEN [raised |-> "none", value |-> FetchBody(resp)]
    ELSE IF FetchCaught(exc) THEN [raised |-> "none", value |-> None]
    ELSE [raised |-> exc, value |-> None]

-----------------------------------------------------------------------------
(* urllib.parse *)

SchemeChars == Letters \cup Digits \cup {"+", "-", "."}

\* urlsplit's first step.  head is url[:i] for i = url.find(":"), the whole
\* url when it has no colon; it is the scheme when it is not empty, starts
\* with a letter and holds scheme characters only.
UrlSplitScheme(u, head) ==
    LET isScheme == /\ Len(head) < Len(u)
                    /\ head # <<>>
                    /\ head[1] \in Letters
                    /\ \A i \in 1..Len(head) : head[i] \in SchemeChars
    IN [scheme |-> IF isScheme THEN Lower(head) ELSE <<>>,
        rest |-> IF isScheme THEN Drop(u, Len(head) + 1) ELSE u]

\* netloc, url = _splitnetloc(url, 2), once netloc is known
UrlWithNetloc(r, netloc) ==
    [scheme |-> r.scheme, hasNetloc |-> TRUE, netloc |-> netloc,
     rest |-> Drop(r.rest, 2 + Len(netloc))]

\* if url[:2] == "//": the netloc ends at the first "/", "?" or "#"
UrlSplitNetloc(r) ==
    IF StartsWith(r.rest, <<"/", "/">>)
    THEN UrlWithNetloc(r, SpanNotIn(Drop(r.rest, 2), {"/", "?", "#"}))
    ELSE [scheme |-> r.scheme, hasNetloc |-> FALSE, netloc |-> <<>>,
          rest |-> r.rest]

\* url, fragment = url.split("#", 1), once the part before the "#" is known
UrlWithFragment(r, before) ==
    [scheme |-> r.scheme, hasNetloc |-> r.hasNetloc, netloc |-> r.netloc,
     fragment |-> Drop(r.rest, Len(before) + 1), rest |-> before]

UrlSplitFragment(r) == UrlWithFragment(r, SpanNotIn(r.rest, {"#"}))

\* url, query = url.split("?", 1), once the part before the "?" is known
UrlWithQuery(r, before) ==
    [scheme |-> r.scheme, hasNetloc |-> r.hasNetloc, netloc |-> r.netloc,
     path |-> before, query |-> Drop(r.rest, Len(before) + 1),
     fragment |-> r.fragment]

UrlSplitQuery(r) == UrlWithQuery(r, SpanNotIn(r.rest, {"?"}))

\* urlparse(u): scheme, netloc, path, query and fragment of u
UrlParse(u) ==
    UrlSplitQuery(UrlSplitFragment(UrlSplitNetloc(
        UrlSplitScheme(u, SpanNotIn(u, {":"})))))

RECURSIVE RemoveDots(_, _)
\* urljoin's loop over the path segments: "." is dropped and ".." takes back
\* the segment before it; out is what is resolved so far.
RemoveDots(segs, out) ==
    IF segs = <<>> THEN out
    ELSE IF segs[1] = <<".">> THEN RemoveDots(Tail(segs), out)
    ELSE IF segs[1] = <<".", ".">>
         THEN RemoveDots(Tail(segs),
                         IF out = <<>> THEN out
                         ELSE SubSeq(out, 1, Len(out) - 1))
    ELSE RemoveDots(Tail(segs), Append(out, segs[1]))

\* base_parts: the segments of the base path without the last one, unless
\* that is empty
BaseParts(split) ==
    IF split[Len(split)] # <<>> THEN SubSeq(split, 1, Len(split) - 1)
    ELSE split

\* segments[1:-1] = filter(None, segments[1:-1])
FilterInner(segments) ==
    LET NotEmpty(x) == x # <<>> IN
    SubSeq(segments, 1, 1)
    \o SelectSeq(SubSeq(segments, 2, Len(segments) - 1), NotEmpty)
    \o (IF Len(segments) > 1 THEN <<segments[Len(segments)]>> ELSE <<>>)

\* The segments urljoin resolves: those of the reference path when it is
\* absolute, else those of the base path and of the reference path
Segments(basePath, refPath) ==
    IF StartsWith(refPath, <<"/">>) THEN SplitOn(refPath, "/")
    ELSE FilterInner(BaseParts(SplitOn(basePath, "/"))
                     \o SplitOn(refPath, "/"))

\* resolved_path, with the empty segment a final "." or ".." leaves
ResolvedPath(segments) ==
    IF segments[Len(segments)] \in {<<".">>, <<".", ".">>}
    THEN Append(RemoveDots(segments, <<>>), <<>>)
    ELSE RemoveDots(segments, <<>>)

\* path or "/"
PathOrRoot(path) == IF path = <<>> THEN <<"/">> ELSE path

\* The path of urljoin's result for a reference without netloc and with a
\* path
JoinPath(basePath, refPath) ==
    PathOrRoot(Join(ResolvedPath(Segments(basePath, refPath)), <<"/">>))

\* scheme://netloc/path?query as one string
Unparse(scheme, netloc, path, query) ==
    scheme \o <<":", "/", "/">> \o netloc
    \o (IF path # <<>> /\ path[1] # "/" THEN <<"/">> ELSE <<>>) \o path
    \o (IF query = <<>> THEN <<>> ELSE <<"?">> \o query)

\* urljoin(base, ref) for b = urlparse(base) and r = urlparse(ref)
Joined(base, ref, b, r) ==
    IF ref = <<>> THEN base
    ELSE IF r.scheme # <<>> /\ r.scheme # b.scheme THEN ref
    ELSE IF r.hasNetloc
         THEN Unparse(b.scheme, r.netloc, r.path, r.query)
    ELSE IF r.path = <<>>
         THEN Unparse(b.scheme, b.netloc, b.path,
                      IF r.query # <<>> THEN r.query ELSE b.query)
    ELSE Unparse(b.scheme, b.netloc, JoinPath(b.path, r.path), r.query)

\* urljoin(base, ref), the fragment left out (urlparse's path and netloc,
\* all _discover_links reads, do not depend on it)
UrlJoin(base, ref) == Joined(base, ref, UrlParse(base), UrlParse(ref))

-----------------------------------------------------------------------------
(* _extract_title, _extract_company_name *)

\* soup.find(...): the elements of the page that pass Test, in document
\* order; the first one is what find returns
FindAll(html, Test(_)) == SelectSeq(html, Test)

IsTitle(e) == e.tag = "title"
IsH1(e) == e.tag = "h1"
IsOgSiteName(e) ==
    /\ e.tag = "meta"
    /\ e.property = <<"o","g",":","s","i","t","e","_","n","a","m","e">>

\* title_tag.string when there is a title tag with a non-empty string,
\* else the empty string (the code tests it for truth)
TitleString(html) ==
    LET found == FindAll(html, IsTitle) IN
    IF found # <<>> THEN found[1].text ELSE <<>>

\* _extract_title(html)
ExtractTitle(html) ==
    LET h1 == FindAll(html, IsH1) IN
    IF TitleString(html) # <<>> THEN Strip(TitleString(html))
    ELSE IF h1 # <<>> THEN Strip(h1[1].text)
    ELSE <<>>

\* The separators of _extract_company_name, in the order it tries them
TITLE_SEPARATORS ==
    << <<" ", "|", " ">>, <<" ", "-", " ">>,
       <<" ", "EM_DASH", " ">>, <<" ", "EN_DASH", " ">>,
       <<" ", ":", ":", " ">> >>

\* The loop over the separators in the reverse order
NameFromTitleLastSeparator(title) ==
    LET seps == {i \in 1..Len(TITLE_SEPARATORS) :
                    Contains(title, TITLE_SEPARATORS[i])}
        sep == TITLE_SEPARATORS[CHOOSE i \in seps : \A j \in seps : i >= j]
    IN IF seps # {} THEN Strip(BeforeFirst(title, sep)) ELSE title

\* The loop over the separators: the part of the title before the first
\* separator, in the order of the list, that occurs in it
NameFromTitle(title) ==
    LET seps == {i \in 1..Len(TITLE_SEPARATORS) :
                    Contains(title, TITLE_SEPARATORS[i])}
        sep == TITLE_SEPARATORS[CHOOSE i \in seps : \A j \in seps : i <= j]
    IN IF seps # {} THEN Strip(BeforeFirst(title, sep)) ELSE title

\* domain.split(".")[0].capitalize()
NameFromDomain(domain) == Capitalize(SplitOn(domain, ".")[1])

\* _extract_company_name(html, url)
ExtractCompanyName(html, u) ==
    LET og_site == FindAll(html, IsOgSiteName) IN
    IF og_site # <<>> /\ og_site[1].content # <<>>
    THEN Strip(og_site[1].content)
    ELSE IF TitleString(html) # <<>>
    THEN NameFromTitle(Strip(TitleString(html)))
    ELSE NameFromDomain(ReplaceAll(UrlParse(u).netloc,
                                   <<"w", "w", "w", ".">>, <<>>))

-----------------------------------------------------------------------------
(* _extract_emails *)

_JUNK_EMAIL_PATTERNS ==
    {<<"n", "o", "r", "e", "p", "l", "y", "@">>,
     <<"n", "o", "-", "r", "e", "p", "l", "y", "@">>,
     <<"d", "o", "n", "o", "t", "r", "e", "p", "l", "y", "@">>,
     <<"m", "a", "i", "l", "e", "r", "-", "d", "a", "e", "m", "o", "n", "@">>,
     <<"p", "o", "s", "t", "m", "a", "s", "t", "e", "r", "@">>,
     <<"w", "e", "b", "m", "a", "s", "t", "e", "r", "@">>,
     <<"h", "o", "s", "t", "m", "a", "s", "t", "e", "r", "@">>}

_JUNK_EMAIL_DOMAINS ==
    {<<"e", "x", "a", "m", "p", "l", "e", ".", "c", "o", "m">>,
     <<"e", "x", "a", "m", "p", "l", "e", ".", "o", "r", "g">>,
     <<"e", "x", "a", "m", "p", "l", "e", ".", "n", "e", "t">>,
     <<"t", "e", "s", "t", ".", "c", "o", "m">>,
     <<"s", "e", "n", "t", "r", "y", ".", "i", "o">>}

_JUNK_EMAIL_EXTENSIONS ==
    {<<".", "p", "n", "g">>,
     <<".", "j", "p", "g">>,
     <<".", "j", "p", "e", "g">>,
     <<".", "g", "i", "f">>,
     <<".", "s", "v", "g">>,
     <<".", "w", "e", "b", "p">>,
     <<".", "c", "s", "s">>,
     <<".", "j", "s">>}

\* The character classes of _EMAIL_RE:
\* [a-zA-Z0-9._%+\-]+ @ [a-zA-Z0-9.\-]+ \. [a-zA-Z]{2,}
EmailLocalChars == Letters \cup Digits \cup {".", "_", "%", "+", "-"}
EmailDomainChars == Letters \cup Digits \cup {".", "-"}

\* found[x] = None for each x of xs in turn, found an insertion-ordered set:
\* a dict keeps each key where it was first inserted
OrderedAddAll(found, xs) ==
    LET IsFirst(i) == \A j \in 1..(i - 1) : (found \o xs)[j] # (found \o xs)[i]
        At(i) == (found \o xs)[i]
    IN Map(At, SelectSeq(Indices(Len(found) + Len(xs)), IsFirst))

IsLocalChar(c) == c \in EmailLocalChars
IsDomainChar(c) == c \in EmailDomainChars
IsLetter(c) == c \in Letters

\* For an "@" at index a of s: the indices the \. of the pattern can match
\* at.  Such a dot lies in the domain characters that follow the "@", not
\* as the first of them, and has at least two letters after it.
TldDots(s, a) ==
    {d \in (a + 2)..(a + Lead(Drop(s, a), IsDomainChar)) :
        s[d] = "." /\ Lead(Drop(s, d), IsLetter) >= 2}

\* Whether a match that starts at index p or later has its "@" at index a:
\* a local-part character (not before p) comes before it and a usable dot
\* after it
IsAnchor(s, p, a) ==
    /\ a > p
    /\ s[a] = "@"
    /\ s[a - 1] \in EmailLocalChars
    /\ TldDots(s, a) # {}

\* Where the match with its "@" at index a starts when no match starts
\* before index p: as far left as local-part characters reach
MatchStart(s, p, a) == a - Trail(SubSeq(s, p, a - 1), IsLocalChar)

\* The last usable dot
LastDot(dots) == CHOOSE x \in dots : \A y \in dots : y <= x

\* Where the match ends whose \. is at index d: after the letters there
TldEnd(s, d) == d + Lead(Drop(s, d), IsLetter)

\* Where the match with its "@" at index a ends
MatchEnd(s, a) == TldEnd(s, LastDot(TldDots(s, a)))

RECURSIVE EmailMatchesFrom(_, _)
RECURSIVE EmailMatchesWith(_, _, _)

\* The leftmost, non-overlapping, greedy matches of _EMAIL_RE in s that start
\* at index p or later: the first one has the first "@" a match can have
EmailMatchesFrom(s, p) ==
    LET Anchor(a) == IsAnchor(s, p, a)
        anchors == SelectSeq(Indices(Len(s)), Anchor)
    IN IF anchors = <<>> THEN <<>>
       ELSE EmailMatchesWith(s, MatchStart(s, p, anchors[1]),
                             MatchEnd(s, anchors[1]))

\* The match s[first - 1:last] and the matches after it
EmailMatchesWith(s, first, last) ==
    <<SubSeq(s, first, last)>> \o EmailMatchesFrom(s, last + 1)

\* _EMAIL_RE.findall(s)
EmailMatches(s) == EmailMatchesFrom(s, 1)

\* The raw markup, as far as _EMAIL_RE can match in it: the attribute values
\* and the text of each element in document order.  The markup between them
\* (angle brackets, quotes, "=") is in none of the pattern's classes, so no
\* match spans two of these pieces.
RawPieces(html) ==
    [k \in 1..(4 * Len(html)) |->
        LET e == html[(k + 3) \div 4] IN
        CASE k % 4 = 1 -> e.href
          [] k % 4 = 2 -> e.property
          [] k % 4 = 3 -> e.content
          [] OTHER -> e.text]

\* The matches in each piece, in document order
MatchesOfPieces(pieces) == Flatten(Map(EmailMatches, pieces))

IsAnchorWithHref(e) == e.tag = "a" /\ e.href # <<>>

\* a_tag["href"].strip()
StrippedHref(a_tag) == Strip(a_tag.href)

\* href.lower().startswith("mailto:")
IsMailto(href) ==
    StartsWith(Lower(href), <<"m", "a", "i", "l", "t", "o", ":">>)

\* href[7:].split("?")[0].strip().lower()
MailtoTarget(href) == Lower(Strip(BeforeFirst(Drop(href, 7), <<"?">>)))

\* if email and "@" in email
IsAddress(email) == email # <<>> /\ Contains(email, <<"@">>)

\* Step 1 of _extract_emails: the targets of the mailto: links
MailtoTargets(html) ==
    SelectSeq(Map(MailtoTarget,
                  SelectSeq(Map(StrippedHref, FindAll(html, IsAnchorWithHref)),
                            IsMailto)),
              IsAddress)

\* email.split("@")[1], "" when there is no "@"
EmailDomain(email) ==
    IF Contains(email, <<"@">>) THEN AfterFirst(email, <<"@">>) ELSE <<>>

\* The filter without the test of the domain
IsJunkEmailByName(email) ==
    \/ \E pat \in _JUNK_EMAIL_PATTERNS : StartsWith(email, pat)
    \/ \E ext \in _JUNK_EMAIL_EXTENSIONS : EndsWith(email, ext)

\* Step 3 of _extract_emails: whether the address is filtered out
IsJunkEmail(email) ==
    \/ \E pat \in _JUNK_EMAIL_PATTERNS : StartsWith(email, pat)
    \/ EmailDomain(email) \in _JUNK_EMAIL_DOMAINS
    \/ \E ext \in _JUNK_EMAIL_EXTENSIONS : EndsWith(email, ext)

\* _extract_emails(html)
ExtractEmails(html) ==
    LET NotJunk(e) == ~IsJunkEmail(e) IN
    SelectSeq(OrderedAddAll(MailtoTargets(html),
                            Map(Lower, MatchesOfPieces(RawPieces(html)))),
              NotJunk)

-----------------------------------------------------------------------------
(* _discover_links *)

\* The items of the PAGE_KEYWORDS dict, in its order: <<keyword, page type>>
PAGE_KEYWORDS ==
    << <<<<"a", "b", "o", "u", "t">>,
          <<"a", "b", "o", "u", "t">>>>,
       <<<<"s", "e", "r", "v", "i", "c", "e", "s">>,
          <<"s", "e", "r", "v", "i", "c", "e", "s">>>>,
       <<<<"s", "o", "l", "u", "t", "i", "o", "n", "s">>,
          <<"s", "e", "r", "v", "i", "c", "e", "s">>>>,
       <<<<"p", "r", "o", "d", "u", "c", "t", "s">>,
          <<"s", "e", "r", "v", "i", "c", "e", "s">>>>,
       <<<<"o", "f", "f", "e", "r", "i", "n", "g", "s">>,
          <<"s", "e", "r", "v", "i", "c", "e", "s">>>>,
       <<<<"w", "h", "a", "t", "-", "w", "e", "-", "d", "o">>,
          <<"s", "e", "r", "v", "i", "c", "e", "s">>>>,
       <<<<"b", "l", "o", "g">>,
          <<"b", "l", "o", "g">>>>,
       <<<<"n", "e", "w", "s">>,
          <<"b", "l", "o", "g">>>>,
       <<<<"i", "n", "s", "i", "g", "h", "t", "s">>,
          <<"b", "l", "o", "g">>>>,
       <<<<"c", "o", "n", "t", "a", "c", "t">>,
          <<"c", "o", "n", "t", "a", "c", "t">>>>,
       <<<<"t", "e", "a", "m">>,
          <<"a", "b", "o", "u", "t">>>>,
       <<<<"c", "a", "r", "e", "e", "r", "s">>,
          <<"a", "b", "o", "u", "t">>>>,
       <<<<"c", "a", "s", "e", "-", "s", "t", "u", "d", "i", "e", "s">>,
          <<"s", "e", "r", "v", "i", "c", "e", "s">>>>,
       <<<<"p", "o", "r", "t", "f", "o", "l", "i", "o">>,
          <<"s", "e", "r", "v", "i", "c", "e", "s">>>>,
       <<<<"p", "r", "i", "c", "i", "n", "g">>,
          <<"s", "e", "r", "v", "i", "c", "e", "s">>>>,
       <<<<"f", "a", "q">>,
          <<"s", "e", "r", "v", "i", "c", "e", "s">>>> >>

MAX_PAGES == 8

\* href.startswith(("#", "mailto:", "tel:", "javascript:"))
IsSkippedHref(href) ==
    \E prefix \in {<<"#">>,
                   <<"m", "a", "i", "l", "t", "o", ":">>,
                   <<"t", "e", "l", ":">>,
                   <<"j", "a", "v", "a", "s", "c", "r", "i", "p", "t",
                         ":">>} :
        StartsWith(href, prefix)

\* The keywords (their positions in PAGE_KEYWORDS) found in the link's path
\* or text
MatchingKeywords(path_lower, link_text) ==
    {k \in 1..Len(PAGE_KEYWORDS) :
        \/ Contains(path_lower, PAGE_KEYWORDS[k][1])
        \/ Contains(link_text, PAGE_KEYWORDS[k][1])}

\* Whether clean_url is a key of the dict discovered
IsDiscovered(discovered, clean_url) ==
    \E i \in 1..Len(discovered) : discovered[i][1] = clean_url

\* The guard without "clean_url != base_url"
IsNewLinkUnlessKnown(discovered, clean_url, base_url) ==
    ~IsDiscovered(discovered, clean_url)

\* The test that guards discovered[clean_url] = page_type
IsNewLink(discovered, clean_url, base_url) ==
    /\ ~IsDiscovered(discovered, clean_url)
    /\ clean_url # RStripChar(base_url, "/")

\* The page type of the last keyword found
PageTypeOfLast(hits) ==
    IF hits = {} THEN <<>>
    ELSE PAGE_KEYWORDS[CHOOSE k \in hits : \A m \in hits : k >= m][2]

\* The page type of the first keyword found; an empty string stands for None
PageTypeOf(hits) ==
    IF hits = {} THEN <<>>
    ELSE PAGE_KEYWORDS[CHOOSE k \in hits : \A m \in hits : k <= m][2]

\* f"{parsed.scheme}://{parsed.netloc}{parsed.path}".rstrip("/")
CleanUrl(parsed) ==
    RStripChar(parsed.scheme \o <<":", "/", "/">> \o parsed.netloc
               \o parsed.path, "/")

\* if page_type: the pair the pass reaches the guarded store with
OfferedPair(parsed, page_type) ==
    IF page_type = <<>> THEN <<>> ELSE <<CleanUrl(parsed), page_type>>

\* From the keyword test on, the domain test left out
OfferedParsedAnyHost(parsed, link_text, base_domain) ==
    OfferedPair(parsed,
                PageTypeOf(MatchingKeywords(
                    RStripChar(Lower(parsed.path), "/"), link_text)))

\* From the domain test on, for parsed = urlparse(full_url)
OfferedParsed(parsed, link_text, base_domain) ==
    IF Lower(parsed.netloc) # base_domain THEN <<>>
    ELSE OfferedPair(parsed,
                     PageTypeOf(MatchingKeywords(
                         RStripChar(Lower(parsed.path), "/"), link_text)))

\* From the href test on, for href = a_tag["href"].strip()
OfferedHref(href, text, base_url) ==
    IF href = <<>> \/ IsSkippedHref(href) THEN <<>>
    ELSE OfferedParsed(UrlParse(UrlJoin(base_url, href)),
                       Lower(Strip(text)),
                       Lower(UrlParse(base_url).netloc))

\* One pass of the loop over the a tags, up to the guarded store: the pair
\* <<clean_url, page_type>> it reaches the guard with, <<>> when it ends in
\* a continue or finds no keyword
Offered(a_tag, base_url) == OfferedHref(Strip(a_tag.href), a_tag.text,
        base_url)

\* The pairs the passes reach the guard with, in the order of the a tags
Offers(a_tags, base_url) ==
    LET Offer(a_tag) == Offered(a_tag, base_url)
        Reached(pair) == pair # <<>>
    IN SelectSeq(Map(Offer, a_tags), Reached)

\* The items of the dict discovered once each pair has come to the guarded
\* store.  The guard's second test depends on the url alone, so a url is a
\* key of the dict when a pair comes to the guard exactly if an earlier pair
\* came with it and the second test holds for it: the guard is evaluated on
\* the earlier pairs.
StoredOffers(offers, base_url) ==
    LET Stored(i) == IsNewLink(SubSeq(offers, 1, i - 1), offers[i][1],
                               base_url)
        At(i) == offers[i]
    IN Map(At, SelectSeq(Indices(Len(offers)), Stored))

\* The dict discovered after the loop over the a tags
DiscoverLoop(a_tags, base_url) ==
    StoredOffers(Offers(a_tags, base_url), base_url)

\* list(discovered.items())[-(MAX_PAGES - 1):]
CapLinksOfTail(discovered) ==
    SubSeq(discovered,
           IF Len(discovered) < MAX_PAGES - 1 THEN 1
           ELSE Len(discovered) - (MAX_PAGES - 1) + 1,
           Len(discovered))

\* list(discovered.items())[:MAX_PAGES - 1]
CapLinks(discovered) ==
    SubSeq(discovered, 1,
           IF Len(discovered) < MAX_PAGES - 1 THEN Len(discovered)
           ELSE MAX_PAGES - 1)

\* _discover_links(html, base_url): <<url, page type>> pairs
DiscoverLinks(html, base_url) ==
    CapLinks(DiscoverLoop(FindAll(html, IsAnchorWithHref), base_url))

-----------------------------------------------------------------------------
(* models.py *)

\* ScrapedPage(url=..., title=..., content=..., page_type=...)
ScrapedPage(page_url, title, content, page_type) ==
    [url |-> page_url, title |-> title, content |-> content,
     page_type |-> page_type]

\* The fields class ScrapedWebsite declares, with their defaults; base_url
\* has none and is always passed
ScrapedWebsiteDefaults ==
    [base_url |-> <<>>, company_name |-> <<>>, pages |-> <<>>,
     raw_text_summary |-> <<>>]

\* ScrapedWebsite(**kwargs): a pydantic BaseModel keeps the declared fields
\* and, with its default configuration, ignores any other keyword
ScrapedWebsite(kwargs) ==
    [f \in DOMAIN ScrapedWebsiteDefaults |->
        IF f \in DOMAIN kwargs THEN kwargs[f] ELSE ScrapedWebsiteDefaults[f]]

-----------------------------------------------------------------------------
(* scrape_website *)

\* The url with its scheme and without one trailing slash
NormalizeUrlOneSlash(u) ==
    LET withScheme ==
            IF \/ StartsWith(u, <<"h", "t", "t", "p", ":", "/", "/">>)
               \/ StartsWith(u, <<"h", "t", "t", "p", "s", ":", "/", "/">>)
            THEN u
            ELSE Cat(<<"h", "t", "t", "p", "s", ":", "/", "/">>, u)
    IN IF withScheme # <<>> /\ withScheme[Len(withScheme)] = "/"
       THEN SubSeq(withScheme, 1, Len(withScheme) - 1)
       ELSE withScheme

\* The first lines of scrape_website: the url with a scheme and without
\* trailing slashes
NormalizeUrl(u) ==
    LET withScheme ==
            IF \/ StartsWith(u, <<"h", "t", "t", "p", ":", "/", "/">>)
               \/ StartsWith(u, <<"h", "t", "t", "p", "s", ":", "/", "/">>)
            THEN u
            ELSE Cat(<<"h", "t", "t", "p", "s", ":", "/", "/">>, u)
    IN RStripChar(withScheme, "/")

\* What the rendering of a page ends with: ImportError when playwright is not
\* installed, another exception when the browser fails, or the page's markup
Rendering(exc, html) == [exc |-> exc, html |-> html]

\* _try_playwright_fetch(url): both except clauses return None
TryPlaywrightFetch(r) == IF r.exc = "none" THEN r.html ELSE None

\* if homepage_html is None: an empty body counts as a page
HomepageMissingIsNone(html) == html.kind = "None"

\* if not homepage_html: return ScrapedWebsite(base_url=url)
HomepageMissing(html) == ~Truthy(html)

\* The thin-content test with the fallback flag left out
HomepageIsThinAnyFlag(text, fallback) == SLen(text) < 100

\* len(homepage_text) < 100 and use_playwright_fallback
HomepageIsThin(text, fallback) == SLen(text) < 100 /\ fallback

\* len(pw_text) >= len(homepage_text)
RenderIsAsLong(pw_text, text) == SLen(pw_text) >= SLen(text)

\* len(pw_text) > len(homepage_text)
RenderIsLonger(pw_text, text) == SLen(pw_text) > SLen(text)

\* len(text) < 30
PageIsThin(text) == SLen(text) < 30

\* The header and content of one page in the summary
SummaryBlock(page) ==
    Cat(Cat(Cat(<<"=", "=", "=", " ">>,
                Upper(page.page_type)),
            Cat(<<":", " ">>, page.title)),
        Cat(<<" ", "=", "=", "=", "\n">>, page.content))

\* "\n".join(summary_parts)
BuildSummaryOneBreak(pgs) ==
    Join([i \in 1..Len(pgs) |-> SummaryBlock(pgs[i])], <<"\n">>)

\* "\n\n".join(summary_parts)
BuildSummary(pgs) ==
    Join([i \in 1..Len(pgs) |-> SummaryBlock(pgs[i])], <<"\n", "\n">>)

\* break in place of continue: a skipped page ends the loop
NextLinkOrStop(i, skipped) ==
    IF skipped THEN Len(linked_pages) + 1 ELSE i + 1

\* The index the for loop over linked_pages goes on with after the page at i:
\* continue, like the end of the body, goes to the next link
NextLink(i, skipped) == i + 1

-----------------------------------------------------------------------------
(* The sites crawled *)

\* A homepage with a site name, a title, a body long enough, one internal
\* link and contact addresses
HOME_RICH ==
    << Element("title", "head",
        <<"A", "c", "m", "e", " ", "C", "o", "r", "p", " ", "EM_DASH", " ",
              "B", "u", "i", "l", "d", "i", "n", "g", " ", "t", "h", "e",
                      " ", "F",
              "u", "t", "u", "r", "e">>,
        <<>>),
       Meta(<<"o", "g", ":", "s", "i", "t", "e", "_", "n", "a", "m", "e">>,
        <<"A", "c", "m", "e", " ", "C", "o", "r", "p">>),
       Element("a", "nav",
        <<"H", "o", "m", "e">>,
        <<"/">>),
       Element("a", "nav",
        <<"A", "b", "o", "u", "t">>,
        <<"/", "a", "b", "o", "u", "t">>),
       Element("h1", "body",
        <<"W", "e", "l", "c", "o", "m", "e", " ", "t", "o", " ", "A", "c",
              "m", "e", " ", "C", "o", "r", "p">>,
        <<>>),
       Element("p", "body",
        Cat(<<"W", "e", " ", "b", "u", "i", "l", "d", " ", "i", "n", "n",
              "o", "v", "a", "t", "i", "v", "e", " ", "s", "o", "l", "u",
                      "t", "i",
              "o", "n", "s", " ">>, Rep("x", 120)),
        <<>>),
       Element("p", "body",
        <<"O", "K">>,
        <<>>),
       Element("a", "body",
        <<"E", "m", "a", "i", "l", " ", "u", "s">>,
        <<"m", "a", "i", "l", "t", "o", ":", "S", "a", "l", "e", "s", "@",
              "a", "c", "m", "e", ".", "c", "o", "m", "?", "s", "u", "b",
                      "j", "e",
              "c", "t", "=", "H", "e", "l", "l", "o">>),
       Element("p", "body",
        <<"W", "r", "i", "t", "e", " ", "t", "o", " ", "s", "a", "l", "e",
              "s", "@", "a", "c", "m", "e", ".", "c", "o", "m", " ", "o",
                      "r", " ",
              "n", "o", "r", "e", "p", "l", "y", "@", "a", "c", "m", "e",
                      ".", "c",
              "o", "m">>,
        <<>>),
       Element("footer", "body",
        <<"C", "o", "p", "y", "r", "i", "g", "h", "t", " ", "2", "0", "2",
              "4">>,
        <<>>),
       Element("script", "body",
        <<"v", "a", "r", " ", "x", " ", "=", " ", "1", ";">>,
        <<>>) >>

\* A homepage that scripts fill in: little text before rendering
HOME_THIN ==
    << Element("title", "head",
        <<"A", "c", "m", "e">>,
        <<>>),
       Element("p", "body",
        <<" ", "L", "o", "a", "d", "i", "n", "g", " ", "t", "h", "e", " ",
              "a", "p", "p", "l", "i", "c", "a", "t", "i", "o", "n", " ">>,
        <<>>),
       Element("a", "body",
        <<"C", "o", "n", "t", "a", "c", "t">>,
        <<"/", "c", "o", "n", "t", "a", "c", "t">>),
       Element("script", "body",
        <<"r", "e", "n", "d", "e", "r", "(", "\"", "h", "e", "l", "l", "o",
              "@", "a", "c", "m", "e", ".", "c", "o", "m", "\"", ")">>,
        <<>>) >>

\* A homepage with more keyword links than the crawl follows, a link to
\* itself and a link given twice
HOME_MANY ==
    << Element("h1", "body",
        <<"A", "c", "m", "e", " ", "|", " ", "H", "o", "m", "e">>,
        <<>>),
       Element("p", "body",
        Cat(<<"E", "v", "e", "r", "y", "t", "h", "i", "n", "g", " ", "a",
              "b", "o", "u", "t", " ", "u", "s", " ">>, Rep("y", 100)),
        <<>>),
       Element("a", "body",
        <<"A", "b", "o", "u", "t", " ", "A", "c", "m", "e">>,
        <<"/">>),
       Element("a", "body",
        <<"W", "h", "o", " ", "w", "e", " ", "a", "r", "e">>,
        <<"/", "a", "b", "o", "u", "t">>),
       Element("a", "body",
        <<"O", "u", "r", " ", "T", "E", "A", "M">>,
        <<"/", "p", "e", "o", "p", "l", "e">>),
       Element("a", "body",
        <<"x">>,
        <<"h", "t", "t", "p", "s", ":", "/", "/", "a", "c", "m", "e", ".",
              "c", "o", "m", "/", "a", "b", "o", "u", "t", "/">>),
       Element("a", "body",
        <<"S", "e", "r", "v", "i", "c", "e", "s">>,
        <<"/", "s", "e", "r", "v", "i", "c", "e", "s">>),
       Element("a", "body",
        <<"P", "r", "o", "d", "u", "c", "t", "s">>,
        <<"h", "t", "t", "p", "s", ":", "/", "/", "e", "x", "t", "e", "r",
              "n", "a", "l", ".", "c", "o", "m", "/", "p", "r", "o", "d",
                      "u", "c",
              "t", "s">>),
       Element("a", "body",
        <<"S", "h", "o", "p">>,
        <<"/", "P", "r", "o", "d", "u", "c", "t", "s", "/">>),
       Element("a", "body",
        <<"B", "l", "o", "g">>,
        <<"/", "b", "l", "o", "g">>),
       Element("a", "body",
        <<"L", "a", "t", "e", "s", "t">>,
        <<"/", "n", "e", "w", "s">>),
       Element("a", "body",
        <<"C", "a", "l", "l">>,
        <<"t", "e", "l", ":", "+", "1", "5", "5", "5", "0", "1", "0",
              "0">>),
       Element("a", "body",
        <<"C", "o", "n", "t", "a", "c", "t">>,
        <<"/", "c", "o", "n", "t", "a", "c", "t">>),
       Element("a", "body",
        <<"P", "l", "a", "n", "s">>,
        <<"/", "p", "r", "i", "c", "i", "n", "g">>),
       Element("a", "body",
        <<"Q", "u", "e", "s", "t", "i", "o", "n", "s">>,
        <<"/", "f", "a", "q">>) >>

\* What the headless browser makes of the thin homepage: more text and
\* more links
RENDERED_RICH ==
    << Element("title", "head",
        <<"A", "c", "m", "e", " ", "-", " ", "R", "e", "n", "d", "e", "r",
              "e", "d">>,
        <<>>),
       Element("p", "body",
        Cat(<<"L", "o", "a", "d", "e", "d", " ", "a", "p", "p", "l", "i",
              "c", "a", "t", "i", "o", "n", " ">>, Rep("z", 150)),
        <<>>),
       Element("a", "body",
        <<"A", "b", "o", "u", "t">>,
        <<"/", "a", "b", "o", "u", "t">>),
       Element("a", "body",
        <<"B", "l", "o", "g">>,
        <<"/", "b", "l", "o", "g">>),
       Element("a", "body",
        <<"M", "a", "i", "l">>,
        <<"m", "a", "i", "l", "t", "o", ":", "h", "e", "l", "l", "o", "@",
              "a", "c", "m", "e", ".", "c", "o", "m">>) >>

\* A render with less text than the thin homepage
RENDERED_SHORT ==
    << Element("title", "head",
        <<"A", "c", "m", "e">>,
        <<>>),
       Element("p", "body",
        <<"E", "r", "r", "o", "r">>,
        <<>>),
       Element("a", "body",
        <<"B", "l", "o", "g">>,
        <<"/", "b", "l", "o", "g">>) >>

\* A render with other text of the same length as the thin homepage's
RENDERED_EQUAL ==
    << Element("title", "head",
        <<"A", "C", "M", "E">>,
        <<>>),
       Element("p", "body",
        <<"L", "o", "a", "d", "i", "n", "g", " ", "t", "h", "e", " ", "a",
              "p", "p", "l", "i", "c", "a", "t", "i", "o", "N">>,
        <<>>),
       Element("a", "body",
        <<"S", "i", "t", "e", "m", "a", "p">>,
        <<"/", "n", "e", "w", "s">>) >>

\* A secondary page with enough text and an address of its own
PAGE_GOOD ==
    << Element("title", "head",
        <<"A", "b", "o", "u", "t", " ", "A", "c", "m", "e">>,
        <<>>),
       Element("p", "body",
        <<"J", "a", "n", "e", " ", "f", "o", "u", "n", "d", "e", "d", " ",
              "A", "c", "m", "e", " ", "i", "n", " ", "2", "0", "1", "0",
                      " ", "t",
              "o", " ", "b", "u", "i", "l", "d", " ", "t", "h", "i", "n",
                      "g", "s",
              ".">>,
        <<>>),
       Element("a", "body",
        <<"J", "a", "n", "e">>,
        <<"m", "a", "i", "l", "t", "o", ":", "j", "a", "n", "e", "@", "a",
              "c", "m", "e", ".", "c", "o", "m">>),
       Element("p", "body",
        <<"P", "r", "e", "s", "s", ":", " ", "S", "A", "L", "E", "S", "@",
              "a", "c", "m", "e", ".", "c", "o", "m">>,
        <<>>) >>

\* A secondary page longer than the content cap
PAGE_LONG ==
    << Element("h1", "body",
        <<"S", "e", "r", "v", "i", "c", "e", "s">>,
        <<>>),
       Element("p", "body",
        Rep("s", 4998),
        <<>>),
       Element("p", "body",
        <<"a", "n", "d", " ", "m", "o", "r", "e", ":", " ", "t", "e", "a",
              "m", "@", "a", "c", "m", "e", ".", "c", "o", "m">>,
        <<>>) >>

\* A secondary page with an address and too little text
PAGE_THIN ==
    << Element("title", "head",
        <<"S", "o", "o", "n">>,
        <<>>),
       Element("p", "body",
        <<"i", "n", "f", "o", "@", "a", "c", "m", "e", ".", "c", "o",
              "m">>,
        <<>>),
       Element("nav", "body",
        Cat(<<"M", "e", "n", "u", " ">>, Rep("m", 60)),
        <<>>) >>

HTML_TYPE == <<"t", "e", "x", "t", "/", "h", "t", "m", "l", ";", " ", "c",
        "h", "a",
          "r", "s", "e", "t", "=", "u", "t", "f", "-", "8">>

Ok(html) == Response("none", 200, HTML_TYPE, Markup(html))
Failing(exc) == Response(exc, 0, <<>>, None)
Status(code) == Response("none", code, HTML_TYPE, Markup(PAGE_GOOD))
Pdf == Response("none", 200,
                <<"a", "p", "p", "l", "i", "c", "a", "t", "i", "o", "n",
                      "/", "p", "d", "f">>,
                Markup(<<Element("p", "body", Rep("%", 40), <<>>)>>))
EmptyBody == Response("none", 200, HTML_TYPE, Markup(<<>>))

\* What the network may answer for the homepage
HomepageResponses ==
    {Failing("Timeout"), Status(503), Pdf, EmptyBody,
     Ok(HOME_RICH), Ok(HOME_THIN), Ok(HOME_MANY)}

\* What the network may answer for a url with the path given
Answers(path) ==
    CASE path \in {<<>>, <<"/">>} -> HomepageResponses
      [] path = <<"/", "a", "b", "o", "u", "t">> ->
             {Ok(PAGE_GOOD), Failing("Timeout")}
      [] path = <<"/", "p", "e", "o", "p", "l", "e">> ->
             {Ok(PAGE_GOOD), Ok(PAGE_THIN)}
      [] path = <<"/", "s", "e", "r", "v", "i", "c", "e", "s">> ->
             {Ok(PAGE_LONG), Status(404)}
      [] path = <<"/", "P", "r", "o", "d", "u", "c", "t", "s">> ->
             {Pdf, Ok(PAGE_GOOD)}
      [] path = <<"/", "b", "l", "o", "g">> ->
             {Ok(PAGE_GOOD), Failing("ConnectionError")}
      [] path = <<"/", "n", "e", "w", "s">> ->
             {Ok(PAGE_THIN), Ok(PAGE_LONG)}
      [] path = <<"/", "c", "o", "n", "t", "a", "c", "t">> ->
             {Ok(PAGE_GOOD), EmptyBody}
      [] OTHER -> {Ok(PAGE_GOOD), Status(500)}

\* What the network may answer for the url u
Web(u) == Answers(UrlParse(u).path)

\* How a rendering of the homepage may end
Renderings ==
    {Rendering("ImportError", None), Rendering("TimeoutError", None),
     Rendering("none", Markup(RENDERED_RICH)),
     Rendering("none", Markup(RENDERED_SHORT)),
     Rendering("none", Markup(RENDERED_EQUAL))}

\* The url arguments scrape_website is called with
Seeds ==
    {<<"h", "t", "t", "p", "s", ":", "/", "/", "a", "c", "m", "e", ".", "c",
          "o", "m">>,
     <<"a", "c", "m", "e", ".", "c", "o", "m", "/">>}

-----------------------------------------------------------------------------
(* scrape_website as a state machine: one step per call that waits for the *)
(* network or the browser, each with all the code up to the next such call *)

\* A call made by the crawl: a page fetch, a rendering, a rate-limit sleep or
\* the link discovery; ret is what a fetch or rendering returned
Event(op, u, ret) == [op |-> op, url |-> u, ret |-> ret]

NoResult == [returned |-> FALSE]

\* No call of scrape_website is under way
CrawlIdle ==
    /\ pc = "idle"
    /\ seed = <<>> /\ url = <<>> /\ use_pw = FALSE /\ sink = "none"
    /\ homepage_html = None /\ homepage_text = <<>> /\ company_name = <<>>
    /\ pages = <<>> /\ all_emails = <<>> /\ linked_pages = <<>> /\ idx = 0
    /\ result = NoResult /\ events = <<>>

\* No direct call of one function is under way
CallIdle == h_fn = "none" /\ h_arg = <<>> /\ h_ret = NoResult

\* What logs/outreach_log.json holds: nothing when the file is missing, the
\* list of record dicts its JSON text stands for, text that is not JSON, or
\* bytes that are not text
LogFile(kind, records) == [kind |-> kind, records |-> records]

\* No call of run_batch is under way, and there is no log file
BatchIdle ==
    /\ batch_pc = "idle" /\ batch_urls = <<>> /\ results = <<>>
    /\ log_file = LogFile("missing", <<>>)

\* No call of run_pipeline is under way
AgentIdle ==
    /\ agent_pc = "idle"
    /\ to_address = <<>> /\ auto_send = FALSE
    /\ pipeline = NoResult /\ calls = <<>>

\* scrape_website(seed, use_pw) has been called
Init ==
    /\ pc = "start"
    /\ seed \in Seeds
    /\ use_pw \in BOOLEAN
    /\ sink = "none"
    /\ url = <<>>
    /\ homepage_html = None /\ homepage_text = <<>> /\ company_name = <<>>
    /\ pages = <<>> /\ all_emails = <<>> /\ linked_pages = <<>> /\ idx = 0
    /\ result = NoResult /\ events = <<>>
    /\ CallIdle
    /\ AgentIdle
    /\ BatchIdle

\* What progress_callback does when _log hands it a message: nothing when
\* there is no callback or it returns, and one that raises may do so at any
\* message
SinkRaisesAtLog == IF sink = "raises" THEN BOOLEAN ELSE {FALSE}

\* _log(...) and the return of website, unless the callback raised
LogAndReturn(website) ==
    \E raises \in SinkRaisesAtLog :
        IF raises THEN pc' = "raised" /\ result' = result
        ELSE pc' = "done" /\ result' = website

\* _log("Failed to fetch homepage..."); return ScrapedWebsite(base_url=url)
ReturnEmpty(u, ev) ==
    /\ LogAndReturn(ScrapedWebsite([base_url |-> u]))
    /\ events' = ev
    /\ UNCHANGED <<homepage_text, company_name, pages, all_emails,
                   linked_pages, idx>>

\* An exception leaves scrape_website
Raise(ev) ==
    /\ pc' = "raised"
    /\ events' = ev
    /\ UNCHANGED <<homepage_text, company_name, pages, all_emails,
                   linked_pages, idx, result>>

\* The end of the loop over linked_pages, or its next pass: the summary and
\* the ScrapedWebsite once every link is done
LoopOrReturn(u, company, pgs, emails, links, i) ==
    /\ pages' = pgs
    /\ all_emails' = emails
    /\ linked_pages' = links
    /\ idx' = i
    /\ IF i > Len(links)
       THEN LogAndReturn(ScrapedWebsite(
                   [base_url |-> u, company_name |-> company, pages |-> pgs,
                    raw_text_summary |-> BuildSummary(pgs),
                    contact_emails |-> emails]))
       ELSE /\ pc' = "loop"
            /\ result' = result

\* The homepage recorded under the url as the caller gave it
HomepageRecordOfSeed(u, html, text) ==
    ScrapedPage(seed, ExtractTitle(Soup(html)), text,
                <<"h", "o", "m", "e", "p", "a", "g", "e">>)

\* The ScrapedPage of the homepage
HomepageRecord(u, html, text) ==
    ScrapedPage(u, ExtractTitle(Soup(html)), text,
                <<"h", "o", "m", "e", "p", "a", "g", "e">>)

\* From pages.append(homepage) to the start of the loop: the homepage is
\* settled as html with the text and company name given
HomepageSettled(u, html, text, company, ev) ==
    /\ homepage_html' = html
    /\ homepage_text' = text
    /\ company_name' = company
    /\ events' = Append(ev, Event("discover", u, None))
    /\ LoopOrReturn(u, company, <<HomepageRecord(u, html, text)>>,
                    OrderedAddAll(<<>>, ExtractEmails(Soup(html))),
                    DiscoverLinks(Soup(html), u), 1)

\* The thin-content test on the homepage, for its text and company name: the
\* rendering is next when it is thin and the fallback is on
HomepageRead(u, html, text, company, ev) ==
    IF HomepageIsThin(text, use_pw)
    THEN /\ pc' = "render_thin"
         /\ homepage_html' = html
         /\ homepage_text' = text
         /\ company_name' = company
         /\ events' = ev
         /\ UNCHANGED <<pages, all_emails, linked_pages, idx, result>>
    ELSE HomepageSettled(u, html, text, company, ev)

\* From "if not homepage_html: return" on: html is what the fetch, or the
\* rendering tried in its place, gave
HomepageFetched(u, html, ev) ==
    IF HomepageMissing(html)
    THEN homepage_html' = html /\ ReturnEmpty(u, ev)
    ELSE HomepageRead(u, html, ExtractText(Soup(html)),
                      ExtractCompanyName(Soup(html), u), ev)

\* The first fetch has ended with got: the rendering is next when it gave
\* nothing and the fallback is on
HomepageAnswered(u, got) ==
    /\ url' = u
    /\ IF got.raised # "none"
       THEN homepage_html' = None /\ Raise(<<Event("fetch", u, got.value)>>)
       ELSE IF ~Truthy(got.value) /\ use_pw
       THEN /\ pc' = "render_missing"
            /\ homepage_html' = got.value
            /\ events' = <<Event("fetch", u, got.value)>>
            /\ UNCHANGED <<homepage_text, company_name, pages, all_emails,
                           linked_pages, idx, result>>
       ELSE HomepageFetched(u, got.value, <<Event("fetch", u, got.value)>>)

\* The url is normalized and the homepage fetched
FetchHomepage ==
    /\ pc = "start"
    /\ \E resp \in Web(NormalizeUrl(seed)) :
        HomepageAnswered(NormalizeUrl(seed), FetchPage(resp))
    /\ UNCHANGED <<seed, use_pw, sink, callVars, agentVars, batchVars,
                   log_file>>

\* The fetch gave nothing: the homepage is rendered in its place
RenderMissingHomepage ==
    /\ pc = "render_missing"
    /\ \E r \in Renderings :
        HomepageFetched(url, TryPlaywrightFetch(r),
                        Append(events,
                               Event("render", url, TryPlaywrightFetch(r))))
    /\ UNCHANGED <<seed, url, use_pw, sink, callVars, agentVars, batchVars,
                   log_file>>

\* The rendering of a thin homepage gave pw_html with the text pw_text: it
\* takes the place of the fetched page when kept says so
RenderCompared(pw_html, pw_text, kept) ==
    HomepageSettled(url,
                    IF kept THEN pw_html ELSE homepage_html,
                    IF kept THEN pw_text ELSE homepage_text,
                    IF kept THEN ExtractCompanyName(Soup(pw_html), url)
                    ELSE company_name,
                    Append(events, Event("render", url, pw_html)))

\* if pw_html: ... if len(pw_text) > len(homepage_text)
RenderRead(pw_html, pw_text) ==
    RenderCompared(pw_html, pw_text,
                   Truthy(pw_html) /\ RenderIsLonger(pw_text, homepage_text))

\* The homepage is thin: it is rendered, and the rendering kept when longer
RenderThinHomepage ==
    /\ pc = "render_thin"
    /\ \E r \in Renderings :
        RenderRead(TryPlaywrightFetch(r),
                   ExtractText(Soup(TryPlaywrightFetch(r))))
    /\ UNCHANGED <<seed, url, use_pw, sink, callVars, agentVars, batchVars,
                   log_file>>

\* The end of one pass of the loop for the page fetched as html with the
\* text given: the page record and its emails unless the pass was skipped
LinkedPageRead(page_url, page_type, html, text, skipped) ==
    LoopOrReturn(url, company_name,
                 IF skipped THEN pages
                 ELSE Append(pages,
                             ScrapedPage(page_url, ExtractTitle(Soup(html)),
                                         text, page_type)),
                 IF skipped THEN all_emails
                 ELSE OrderedAddAll(all_emails, ExtractEmails(Soup(html))),
                 linked_pages, NextLink(idx, skipped))

\* if not html: continue ... if len(text) < 30: continue
LinkedPageFetched(page_url, page_type, html, text) ==
    LinkedPageRead(page_url, page_type, html, text,
                   ~Truthy(html) \/ PageIsThin(text))

\* The fetch of a linked page made with no sleep before it
LinkedPageAnsweredNoSleep(page_url, page_type, got) ==
    /\ events' = Append(events, Event("fetch", page_url, got.value))
    /\ IF got.raised # "none"
       THEN /\ pc' = "raised"
            /\ UNCHANGED <<pages, all_emails, linked_pages, idx, result>>
       ELSE LinkedPageFetched(page_url, page_type, got.value,
                              ExtractText(Soup(got.value)))

\* The fetch of a linked page has ended with got
LinkedPageAnswered(page_url, page_type, got) ==
    /\ events' = events \o <<Event("sleep", page_url, None),
                             Event("fetch", page_url, got.value)>>
    /\ IF got.raised # "none"
       THEN /\ pc' = "raised"
            /\ UNCHANGED <<pages, all_emails, linked_pages, idx, result>>
       ELSE LinkedPageFetched(page_url, page_type, got.value,
                              ExtractText(Soup(got.value)))

\* One pass of the loop over linked_pages: sleep, fetch, and the page record
\* unless the page is missing or thin
FetchLinkedPage ==
    /\ pc = "loop"
    /\ \E resp \in Web(linked_pages[idx][1]) :
        LinkedPageAnswered(linked_pages[idx][1], linked_pages[idx][2],
                           FetchPage(resp))
    /\ UNCHANGED <<seed, url, use_pw, sink, homepage_html, homepage_text,
                   company_name, callVars, agentVars, batchVars,
                   log_file>>

Next ==
    \/ FetchHomepage
    \/ RenderMissingHomepage
    \/ RenderThinHomepage
    \/ FetchLinkedPage

Spec == Init /\ [][Next]_vars

-----------------------------------------------------------------------------
(* scrape_website with a progress callback *)

\* What the progress_callback given does: "none" is no callback, "collects"
\* one that keeps the message and returns, as messages.append does, and
\* "raises" one that may raise instead
Sinks == {"none", "collects", "raises"}

\* Url arguments with more than one trailing slash, with the http scheme,
\* with a scheme that is neither http nor https, and with nothing but a slash
SlashedSeeds ==
    {<<"a", "c", "m", "e", ".", "c", "o", "m", "/", "/">>,
     <<"h", "t", "t", "p", ":", "/", "/", "a", "c", "m", "e", ".", "c", "o",
          "m", "/">>,
     <<"f", "t", "p", ":", "/", "/", "a", "c", "m", "e", ".", "c", "o", "m">>,
     <<"/">>}

\* scrape_website(seed, use_pw, progress_callback) has been called
InitSink ==
    /\ pc = "start"
    /\ seed \in Seeds \cup SlashedSeeds
    /\ use_pw \in BOOLEAN
    /\ sink \in Sinks
    /\ sink = "none" \/ NormalizeUrl(seed) = seed
    /\ url = <<>>
    /\ homepage_html = None /\ homepage_text = <<>> /\ company_name = <<>>
    /\ pages = <<>> /\ all_emails = <<>> /\ linked_pages = <<>> /\ idx = 0
    /\ result = NoResult /\ events = <<>>
    /\ CallIdle
    /\ AgentIdle
    /\ BatchIdle

\* if progress_callback: progress_callback(msg), for a callback that raises
\* at the message: the exception leaves _log and scrape_website with it.
\* Every wait of the crawl is followed by a _log before the next call is
\* made; in the loop the sleep of the pass may come before that _log
SinkRaises ==
    /\ pc \in {"start", "render_missing", "render_thin", "loop"}
    /\ TRUE \in SinkRaisesAtLog
    /\ pc' = "raised"
    /\ \E slept \in {FALSE, pc = "loop"} :
        events' = IF slept
                  THEN Append(events,
                              Event("sleep", linked_pages[idx][1], None))
                  ELSE events
    /\ UNCHANGED <<seed, url, use_pw, sink, homepage_html, homepage_text,
                   company_name, pages, all_emails, linked_pages, idx,
                   result, callVars, agentVars, batchVars,
                   log_file>>

NextSink ==
    \/ FetchHomepage
    \/ RenderMissingHomepage
    \/ RenderThinHomepage
    \/ FetchLinkedPage
    \/ SinkRaises

SpecSink == InitSink /\ [][NextSink]_vars

-----------------------------------------------------------------------------
(* OutreachAgent.run_pipeline (src/src/agent.py) as a state machine: one    *)
(* step per phase, each with the code from the end of the phase before it; *)
(* the scrape phase is the crawl above.  url is the crawl's seed,          *)
(* progress_callback its sink and config.use_playwright its use_pw.        *)

\* PipelineResult(url=url): the dataclass with its defaults.  error is an
\* Optional[str], held as html is
PipelineResult(u) ==
    [url |-> u, scraped |-> None, analysis |-> None, draft |-> None,
     send_result |-> None, error |-> None, stage |-> "not_started"]

\* str(e) for the exception a progress callback raises
SINK_ERROR == <<"s", "i", "n", "k", " ", "f", "a", "i", "l", "e", "d">>

FAILED_TO_SCRAPE == <<"F", "a", "i", "l", "e", "d", " ", "t", "o", " ", "s",
        "c", "r", "a", "p", "e", " ", "a", "n", "y", " ", "c", "o", "n", "t",
        "e", "n", "t", " ", "f", "r", "o", "m", " ", "t", "h", "e", " ", "w",
        "e", "b", "s", "i", "t", "e", ".">>

\* What analyze_prospect ends with: the NeedAnalysis built from the model's
\* answer, or the exception it lets through, as the ValueError of an answer
\* that is not JSON
AnalyzeOutcomes ==
    {[raised |-> "none", value |-> [company_name |-> <<"A", "c", "m", "e",
            " ", "C", "o", "r", "p">>]],
     [raised |-> "ValueError", value |-> <<"B", "a", "d", " ", "L", "L", "M",
             " ", "r", "e", "s", "p", "o", "n", "s", "e">>]}

\* What draft_email ends with: the EmailDraft, or the exception it lets
\* through
DraftOutcomes ==
    {[raised |-> "none",
      value |-> [subject |-> <<"Q", "u", "i", "c", "k", " ", "q", "u", "e",
              "s", "t", "i", "o", "n">>, body |-> <<"H", "i", " ", "t", "h",
              "e", "r", "e", ".", ".", ".">>]],
     [raised |-> "ValueError", value |-> <<"L", "L", "M", " ", "d", "i", "d",
             " ", "n", "o", "t", " ", "r", "e", "t", "u", "r", "n", " ", "v",
             "a", "l", "i", "d", " ", "J", "S", "O", "N">>]}

\* The fields class OutreachRecord declares, with their defaults; the
\* timestamp's is the clock's reading, and the required fields have none
OutreachRecordDefaults ==
    [timestamp |-> Markup(<<"2", "0", "2", "6", "-", "0", "1", "-", "0", "1",
                            "T", "0", "9", ":", "0", "0", ":", "0", "0">>),
     prospect_url |-> <<>>, prospect_name |-> <<>>,
     recipient_email |-> <<>>, email_subject |-> <<>>, email_body |-> <<>>,
     status |-> Markup(<<"d", "r", "a", "f", "t", "e", "d">>),
     error_message |-> None, opened_at |-> None, replied_at |-> None,
     follow_up_date |-> None, notes |-> None]

\* OutreachRecord(**kwargs), and record.model_dump(): the dict with every
\* declared field
OutreachRecord(kwargs) ==
    [f \in DOMAIN OutreachRecordDefaults |->
        IF f \in DOMAIN kwargs THEN kwargs[f] ELSE OutreachRecordDefaults[f]]

\* The fields of OutreachRecord that are str and not Optional[str]
REQUIRED_STR == {"timestamp", "status"}

\* json.loads(log_file.read_text()) as _log_outreach and
\* update_outreach_record guard it: a missing file and text that is not JSON
\* give no records, and bytes that are not text raise UnicodeDecodeError,
\* which "except (json.JSONDecodeError, OSError)" lets through
ReadRecords(file) ==
    IF file.kind = "undecodable"
    THEN [raised |-> "UnicodeDecodeError", value |-> <<>>]
    ELSE [raised |-> "none", value |-> file.records]

\* How log_file.write_text may end
WriteOutcomes == {"none", "PermissionError"}

\* _log_outreach(record) when write_text ends as write says: the exception
\* raised and the file left
LogOutreach(file, record, write) ==
    IF ReadRecords(file).raised # "none"
    THEN [raised |-> ReadRecords(file).raised, file |-> file]
    ELSE IF write # "none" THEN [raised |-> write, file |-> file]
    ELSE [raised |-> "none",
          file |-> LogFile("records",
                           Append(ReadRecords(file).value, record))]

\* OutreachRecord(**d) raises ValidationError for a str field that is None
IsValidRecord(d) == \A f \in REQUIRED_STR : d[f] # None

\* get_outreach_log(): its own except clause goes around the read and the
\* building of the records; UnicodeDecodeError and ValidationError are
\* neither json.JSONDecodeError nor OSError
GetOutreachLog(file) ==
    IF file.kind = "undecodable"
    THEN [raised |-> "UnicodeDecodeError", value |-> <<>>]
    ELSE IF \E i \in 1..Len(file.records) : ~IsValidRecord(file.records[i])
    THEN [raised |-> "ValidationError", value |-> <<>>]
    ELSE [raised |-> "none",
          value |-> [i \in 1..Len(file.records) |->
                        OutreachRecord(file.records[i])]]

\* records[index].update(fields)
UpdateDict(d, fields) ==
    [f \in DOMAIN d \cup DOMAIN fields |->
        IF f \in DOMAIN fields THEN fields[f] ELSE d[f]]

\* The end of update_outreach_record once index and fields have passed: the
\* file is written with the list changed, and the record returned
UpdateWritten(file, changed, index, write) ==
    IF write # "none"
    THEN [raised |-> write, value |-> None, file |-> file]
    ELSE IF ~IsValidRecord(changed[index + 1])
    THEN [raised |-> "ValidationError", value |-> None,
          file |-> LogFile("records", changed)]
    ELSE [raised |-> "none", value |-> changed[index + 1],
          file |-> LogFile("records", changed)]

\* update_outreach_record with the field names checked one by one as they
\* are applied: the fields that are declared are written before the
\* ValueError for one that is not
UpdateOutreachRecordPartial(file, index, fields, write) ==
    LET records == ReadRecords(file).value
        known == [f \in DOMAIN fields \cap DOMAIN OutreachRecordDefaults |->
                     fields[f]]
    IN
    IF ReadRecords(file).raised # "none"
    THEN [raised |-> ReadRecords(file).raised, value |-> None, file |-> file]
    ELSE IF index < 0 \/ index >= Len(records)
    THEN [raised |-> "IndexError", value |-> None, file |-> file]
    ELSE IF \E key \in DOMAIN fields : key \notin DOMAIN OutreachRecordDefaults
    THEN [raised |-> "ValueError", value |-> None,
          file |-> LogFile("records",
                           [records EXCEPT ![index + 1] =
                                UpdateDict(records[index + 1], known)])]
    ELSE UpdateWritten(file,
                       [records EXCEPT ![index + 1] =
                            UpdateDict(records[index + 1], fields)],
                       index, write)

\* update_outreach_record(index, **fields) when write_text ends as write says
UpdateOutreachRecord(file, index, fields, write) ==
    LET records == ReadRecords(file).value IN
    IF ReadRecords(file).raised # "none"
    THEN [raised |-> ReadRecords(file).raised, value |-> None, file |-> file]
    ELSE IF index < 0 \/ index >= Len(records)
    THEN [raised |-> "IndexError", value |-> None, file |-> file]
    ELSE IF \E key \in DOMAIN fields : key \notin DOMAIN OutreachRecordDefaults
    THEN [raised |-> "ValueError", value |-> None, file |-> file]
    ELSE UpdateWritten(file,
                       [records EXCEPT ![index + 1] =
                            UpdateDict(records[index + 1], fields)],
                       index, write)

MAX_RETRIES == 3

\* What one SMTP attempt of send_email ends with: the message sent, or the
\* exception of the connection, the login or the sending; ValueError stands
\* for one that is neither an SMTPException nor an OSError
SmtpOutcomes ==
    {"sent", "SMTPAuthenticationError", "SMTPRecipientsRefused",
     "SMTPException", "OSError", "ValueError"}

\* last_error after the attempt numbered n has ended with the exception exc,
\* whose text is the one character named after it
LastError(exc, n) ==
    IF exc = "SMTPAuthenticationError"
    THEN <<"A", "u", "t", "h", "e", "n", "t", "i", "c", "a", "t", "i", "o",
            "n", " ", "f", "a", "i", "l", "e", "d", ":", " ">> \o <<exc>>
             \o <<".", " ", "C", "h", "e", "c", "k", " ", "y", "o", "u", "r",
                     " ", "G", "m", "a", "i", "l", " ", "a", "d", "d", "r",
                     "e", "s", "s", " ", "a", "n", "d", " ", "A", "p", "p",
                     " ", "P", "a", "s", "s", "w", "o", "r", "d", ".">>
    ELSE IF exc = "SMTPRecipientsRefused"
    THEN <<"R", "e", "c", "i", "p", "i", "e", "n", "t", " ", "r", "e", "f",
            "u", "s", "e", "d", ":", " ">> \o <<exc>>
    ELSE <<"S", "M", "T", "P", " ", "e", "r", "r", "o", "r", " ", "(", "a",
            "t", "t", "e", "m", "p", "t", " ">> \o <<<<"0", "1", "2", "3",
            "4", "5", "6", "7", "8", "9">>[n + 1]>> \o <<")", ":", " ">>
             \o <<exc>>

\* The exceptions of _log_outreach that are OSError
OSErrors == {"OSError", "PermissionError"}

\* The end of send_email after the loop with last_error left out of the
\* record
SendFailedNoMessage(file, record, last_error, write, attempts, delivered) ==
    LET failed == [record EXCEPT
                       !.status = Markup(<<"f", "a", "i", "l", "e", "d">>)]
        logged == LogOutreach(file, failed, write)
    IN  [raised |-> logged.raised,
         value |-> IF logged.raised = "none" THEN failed ELSE None,
         file |-> logged.file, attempts |-> attempts,
         delivered |-> delivered]

\* The end of send_email after the loop: the record is marked failed with
\* last_error and logged, write being how that write_text ends; attempts
\* SMTP attempts were made and delivered of them sent the message
SendFailed(file, record, last_error, write, attempts, delivered) ==
    LET failed == [record EXCEPT
                       !.status = Markup(<<"f", "a", "i", "l", "e", "d">>),
                       !.error_message = Markup(last_error)]
        logged == LogOutreach(file, failed, write)
    IN  [raised |-> logged.raised,
         value |-> IF logged.raised = "none" THEN failed ELSE None,
         file |-> logged.file, attempts |-> attempts,
         delivered |-> delivered]

RECURSIVE SendAttempts(_, _, _, _, _, _)
\* The attempt numbered attempt has sent the message: the record is marked
\* sent and logged inside the try block, so an OSError of _log_outreach is
\* taken by "except (smtplib.SMTPException, OSError)" as the failure of
\* the attempt, and any other exception leaves send_email
SendDelivered(file, record, smtp, writes, attempt, delivered) ==
    LET sent == [record EXCEPT !.status = Markup(<<"s", "e", "n", "t">>)]
        logged == LogOutreach(file, sent, writes[attempt])
    IN  IF logged.raised = "none"
        THEN [raised |-> "none", value |-> sent, file |-> logged.file,
              attempts |-> attempt, delivered |-> delivered + 1]
        ELSE IF logged.raised \notin OSErrors
        THEN [raised |-> logged.raised, value |-> None, file |-> file,
              attempts |-> attempt, delivered |-> delivered + 1]
        ELSE IF attempt = MAX_RETRIES
        THEN SendFailed(file, sent, LastError(logged.raised, attempt),
                        writes[MAX_RETRIES + 1], attempt, delivered + 1)
        ELSE SendAttempts(file, sent, smtp, writes, attempt + 1,
                          delivered + 1)

\* The loop "for attempt in range(1, MAX_RETRIES + 1)" from the attempt given
\* on, smtp[n] being what the SMTP session of the attempt numbered n ends
\* with and writes[n] what the write_text of its _log_outreach ends with;
\* writes[MAX_RETRIES + 1] is for the _log_outreach after the loop
SendAttempts(file, record, smtp, writes, attempt, delivered) ==
    IF smtp[attempt] = "sent"
    THEN SendDelivered(file, record, smtp, writes, attempt, delivered)
    ELSE IF smtp[attempt] = "ValueError"
    THEN [raised |-> "ValueError", value |-> None, file |-> file,
          attempts |-> attempt, delivered |-> delivered]
    ELSE IF \/ smtp[attempt] \in {"SMTPAuthenticationError",
                                  "SMTPRecipientsRefused"}
            \/ attempt = MAX_RETRIES
    THEN SendFailed(file, record, LastError(smtp[attempt], attempt),
                    writes[MAX_RETRIES + 1], attempt, delivered)
    ELSE SendAttempts(file, record, smtp, writes, attempt + 1, delivered)

\* send_email(draft, to_address, ..., prospect_url, prospect_name) when its
\* SMTP sessions end as smtp says and the write_text calls as writes says:
\* the exception raised, the OutreachRecord returned, the log file left, the
\* number of SMTP attempts made and the number of them that sent the message
SendEmail(file, draft, to, prospect_url, prospect_name, smtp, writes) ==
    SendAttempts(file,
                 OutreachRecord([prospect_url |-> prospect_url,
                                 prospect_name |-> prospect_name,
                                 recipient_email |-> to,
                                 email_subject |-> draft.subject,
                                 email_body |-> draft.body,
                                 status |-> Markup(<<"p", "e", "n", "d",
                                                     "i", "n", "g">>)]),
                 smtp, writes, 1, 0)

\* How the SMTP attempts of the send_email call of a pipeline may go
SmtpRuns ==
    {<<"sent", "sent", "sent">>,
     <<"OSError", "sent", "sent">>,
     <<"SMTPAuthenticationError", "sent", "sent">>,
     <<"SMTPException", "OSError", "SMTPException">>}

\* How the write_text calls of the send_email call of a pipeline may go
WriteRuns ==
    {<<"none", "none", "none", "none">>,
     <<"PermissionError", "none", "none", "none">>,
     <<"PermissionError", "PermissionError", "PermissionError",
       "PermissionError">>}

\* What self.send may end with
SendOutcomes(file, draft, to, prospect_url, prospect_name) ==
    {SendEmail(file, draft, to, prospect_url, prospect_name, smtp, writes) :
        smtp \in SmtpRuns, writes \in WriteRuns}

\* The except clause of run_pipeline for the exception with the text msg,
\* res being the result so far: the result is marked failed and returned
\* unless the progress callback raises at _log(f"Error: {e}")
Except(res, msg) ==
    /\ pipeline' = [res EXCEPT !.error = Markup(msg), !.stage = "failed"]
    /\ \E raises \in SinkRaisesAtLog :
        agent_pc' = IF raises THEN "raised" ELSE "returned"

\* A _log call of the try block and what follows it: the except clause when
\* the progress callback raises, with res the result so far
LogThen(res, next, then) ==
    \E raises \in SinkRaisesAtLog :
        IF raises THEN Except(res, SINK_ERROR)
        ELSE pipeline' = then /\ agent_pc' = next

\* run_pipeline up to its call of self.scrape: scrape_website is entered
\* unless the progress callback raised at the first message
StartPipeline ==
    /\ agent_pc = "called"
    /\ LogThen(PipelineResult(seed), "scraping",
               [PipelineResult(seed) EXCEPT !.stage = "scraping"])
    /\ pc' = IF agent_pc' = "scraping" THEN "start" ELSE pc
    /\ calls' = IF agent_pc' = "scraping" THEN <<"scrape">> ELSE calls
    /\ UNCHANGED <<seed, url, use_pw, sink, homepage_html, homepage_text,
                   company_name, pages, all_emails, linked_pages, idx,
                   result, events, to_address, auto_send, callVars,
                   batchVars, log_file>>

\* The scrape phase with an empty page list passed on to the analysis
ScrapeEndedAnyPages ==
    /\ agent_pc = "scraping"
    /\ pc \in {"done", "raised"}
    /\ IF pc = "raised" THEN Except(pipeline, SINK_ERROR)
       ELSE LogThen([pipeline EXCEPT !.scraped = result], "analyzing",
                    [pipeline EXCEPT !.scraped = result,
                                     !.stage = "analyzing"])
    /\ UNCHANGED <<crawlVars, to_address, auto_send, calls, callVars,
                   batchVars, log_file>>

\* self.scrape has ended: the empty page list is the failure returned at
\* once, an exception goes to the except clause, and else analysis is next
ScrapeEnded ==
    /\ agent_pc = "scraping"
    /\ pc \in {"done", "raised"}
    /\ IF pc = "raised" THEN Except(pipeline, SINK_ERROR)
       ELSE IF result.pages = <<>>
       THEN /\ pipeline' = [pipeline EXCEPT !.scraped = result,
                                            !.error = Markup(FAILED_TO_SCRAPE),
                                            !.stage = "failed"]
            /\ agent_pc' = "returned"
       ELSE LogThen([pipeline EXCEPT !.scraped = result], "analyzing",
                    [pipeline EXCEPT !.scraped = result,
                                     !.stage = "analyzing"])
    /\ UNCHANGED <<crawlVars, to_address, auto_send, calls, callVars,
                   batchVars, log_file>>

\* self.analyze has ended with got: drafting is next
Analyzed(got) ==
    IF got.raised # "none" THEN Except(pipeline, got.value)
    ELSE LogThen([pipeline EXCEPT !.analysis = got.value], "drafting",
                 [pipeline EXCEPT !.analysis = got.value,
                                  !.stage = "drafting"])

\* Phase 2: result.analysis = self.analyze(result.scraped)
Analyze ==
    /\ agent_pc = "analyzing"
    /\ calls' = Append(calls, "analyze")
    /\ \E got \in AnalyzeOutcomes : Analyzed(got)
    /\ UNCHANGED <<crawlVars, to_address, auto_send, callVars,
                   batchVars, log_file>>

\* The draft phase with the send following whenever auto_send is set
DraftedAnyRecipient(got) ==
    IF got.raised # "none" THEN Except(pipeline, got.value)
    ELSE IF auto_send
    THEN LogThen([pipeline EXCEPT !.draft = got.value], "sending",
                 [pipeline EXCEPT !.draft = got.value, !.stage = "sending"])
    ELSE LogThen([pipeline EXCEPT !.draft = got.value], "returned",
                 [pipeline EXCEPT !.draft = got.value,
                                  !.stage = "reviewing"])

\* self.draft has ended with got: sending is next if auto_send and
\* to_address, and else the result is returned for review
Drafted(got) ==
    IF got.raised # "none" THEN Except(pipeline, got.value)
    ELSE IF auto_send /\ to_address # <<>>
    THEN LogThen([pipeline EXCEPT !.draft = got.value], "sending",
                 [pipeline EXCEPT !.draft = got.value, !.stage = "sending"])
    ELSE LogThen([pipeline EXCEPT !.draft = got.value], "returned",
                 [pipeline EXCEPT !.draft = got.value,
                                  !.stage = "reviewing"])

\* Phase 3: result.draft = self.draft(result.analysis)
Draft ==
    /\ agent_pc = "drafting"
    /\ calls' = Append(calls, "draft")
    /\ \E got \in DraftOutcomes : Drafted(got)
    /\ UNCHANGED <<crawlVars, to_address, auto_send, callVars,
                   batchVars, log_file>>

\* self.send has ended with got: the stage is complete when the record says
\* sent, and else failed with the record's error message.  The text of an
\* exception of send_email is the one character named after it
Sent(got) ==
    IF got.raised # "none" THEN Except(pipeline, <<got.raised>>)
    ELSE LogThen([pipeline EXCEPT !.send_result = got.value], "returned",
                 IF got.value.status = Markup(<<"s", "e", "n", "t">>)
                 THEN [pipeline EXCEPT !.send_result = got.value,
                                       !.stage = "complete"]
                 ELSE [pipeline EXCEPT !.send_result = got.value,
                                       !.stage = "failed",
                                       !.error = got.value.error_message])

\* Phase 4: result.send_result = self.send(...)
Send ==
    /\ agent_pc = "sending"
    /\ calls' = Append(calls, "send")
    /\ \E got \in SendOutcomes(log_file, pipeline.draft, to_address, seed,
                               pipeline.analysis.company_name) :
        Sent(got) /\ log_file' = got.file
    /\ UNCHANGED <<crawlVars, to_address, auto_send, callVars, batchVars>>

\* The urls run_pipeline is called with
AgentUrls == {<<"h", "t", "t", "p", "s", ":", "/", "/", "a", "c", "m", "e",
        ".", "c", "o", "m", "/", "a", "b", "o", "u", "t">>}

\* The recipients given: none, and one
Recipients == {<<>>, <<"t", "e", "s", "t", "@", "a", "c", "m", "e", ".", "c",
        "o", "m">>}

\* run_pipeline(seed, to_address, auto_send, progress_callback) has been
\* called by an agent whose config.use_playwright is use_pw
InitAgent ==
    /\ pc = "idle"
    /\ seed \in AgentUrls
    /\ use_pw \in BOOLEAN
    /\ sink \in Sinks
    /\ url = <<>>
    /\ homepage_html = None /\ homepage_text = <<>> /\ company_name = <<>>
    /\ pages = <<>> /\ all_emails = <<>> /\ linked_pages = <<>> /\ idx = 0
    /\ result = NoResult /\ events = <<>>
    /\ CallIdle
    /\ agent_pc = "called"
    /\ to_address \in Recipients
    /\ auto_send \in BOOLEAN
    /\ pipeline = NoResult
    /\ calls = <<>>
    /\ BatchIdle

NextAgent ==
    \/ StartPipeline
    \/ FetchHomepage
    \/ RenderMissingHomepage
    \/ RenderThinHomepage
    \/ FetchLinkedPage
    \/ SinkRaises
    \/ ScrapeEnded
    \/ Analyze
    \/ Draft
    \/ Send

SpecAgent == InitAgent /\ [][NextAgent]_vars

-----------------------------------------------------------------------------
(* OutreachAgent.run_batch: the pipeline above once for each url in turn    *)

\* The for loop of run_batch at the url numbered Len(results) + 1: the
\* progress callback is handed the "Processing" message and run_pipeline
\* is called with the url, the callback and its defaults, no recipient and
\* auto_send False; the results are returned when no url is left
NextUrl ==
    /\ batch_pc = "loop"
    /\ IF Len(results) = Len(batch_urls)
       THEN /\ batch_pc' = "returned"
            /\ UNCHANGED <<crawlVars, agentVars>>
       ELSE \E raises \in SinkRaisesAtLog :
            IF raises
            THEN batch_pc' = "raised" /\ UNCHANGED <<crawlVars, agentVars>>
            ELSE /\ batch_pc' = "running"
                 /\ seed' = batch_urls[Len(results) + 1]
                 /\ pc' = "idle" /\ url' = <<>>
                 /\ homepage_html' = None /\ homepage_text' = <<>>
                 /\ company_name' = <<>> /\ pages' = <<>>
                 /\ all_emails' = <<>> /\ linked_pages' = <<>> /\ idx' = 0
                 /\ result' = NoResult /\ events' = <<>>
                 /\ agent_pc' = "called"
                 /\ to_address' = <<>> /\ auto_send' = FALSE
                 /\ pipeline' = NoResult /\ calls' = <<>>
                 /\ UNCHANGED <<use_pw, sink>>
    /\ UNCHANGED <<batch_urls, results, log_file, callVars>>

\* result = self.run_pipeline(...); results.append(result), unless
\* run_pipeline ended with an exception, which leaves run_batch too
PipelineDone ==
    /\ batch_pc = "running"
    /\ agent_pc \in {"returned", "raised"}
    /\ IF agent_pc = "raised"
       THEN batch_pc' = "raised" /\ results' = results
       ELSE batch_pc' = "loop" /\ results' = Append(results, pipeline)
    /\ UNCHANGED <<crawlVars, agentVars, batch_urls, log_file, callVars>>

\* The urls of a batch
BatchUrls ==
    {<<"h", "t", "t", "p", "s", ":", "/", "/", "a", "c", "m", "e", ".", "c",
            "o", "m", "/", "a", "b", "o", "u", "t">>, <<"h", "t", "t", "p",
            "s", ":", "/", "/", "a", "c", "m", "e", ".", "c", "o", "m", "/",
            "b", "l", "o", "g">>}

\* The longest list of urls handed to run_batch
MaxBatch == 2

\* run_batch(batch_urls, progress_callback) has been called by an agent
\* whose config.use_playwright is use_pw
InitBatch ==
    /\ batch_pc = "loop"
    /\ batch_urls \in UNION {[1..n -> BatchUrls] : n \in 0..MaxBatch}
    /\ results = <<>>
    /\ use_pw \in BOOLEAN
    /\ sink \in Sinks
    /\ use_pw => Len(batch_urls) <= 1
    /\ pc = "idle" /\ seed = <<>> /\ url = <<>>
    /\ homepage_html = None /\ homepage_text = <<>> /\ company_name = <<>>
    /\ pages = <<>> /\ all_emails = <<>> /\ linked_pages = <<>> /\ idx = 0
    /\ result = NoResult /\ events = <<>>
    /\ CallIdle
    /\ AgentIdle
    /\ log_file = LogFile("missing", <<>>)

NextBatch ==
    \/ NextUrl
    \/ StartPipeline
    \/ FetchHomepage
    \/ RenderMissingHomepage
    \/ RenderThinHomepage
    \/ FetchLinkedPage
    \/ SinkRaises
    \/ ScrapeEnded
    \/ Analyze
    \/ Draft
    \/ PipelineDone

SpecBatch == InitBatch /\ [][NextBatch]_vars

-----------------------------------------------------------------------------

(* Direct calls of _extract_text and _fetch_page *)

\* The largest number of elements in a page handed to _extract_text
MaxNodes == 2

\* The length of the text a cut at MAX_CONTENT_LENGTH falls into: a run of
\* n characters followed by a second text node ends the first 5000
\* characters 5000 - n - 1 characters into the second
LongRuns == {4996, 4998, 4999, 6000}

\* The elements the pages handed to _extract_text are made of
TextNodes ==
    {Element("p", "body", <<"o", "k">>, <<>>),
     Element("p", "body", <<"H", "e", "l", "l", "o", " ", "w", "o", "r", "l",
             "d">>, <<>>),
     Element("p", "body", <<" ", " ", "A", "b", "o", "u", "t", " ", "u", "s",
             " ", " ">>, <<>>),
     Element("p", "body", <<"O", "n", "e", "\n", "n", "o", "\n", "T", "h",
             "r", "e", "e">>, <<>>),
     Element("script", "body", <<"v", "a", "r", " ", "x", " ", "=", " ", "1",
             ";">>, <<>>),
     Element("a", "nav", <<"H", "o", "m", "e", " ", "p", "a", "g", "e">>,
             <<>>)}
    \cup {Element("p", "body", Rep("x", n), <<>>) : n \in LongRuns}

\* The pages handed to _extract_text
TextInputs ==
    {Markup(els) : els \in UNION {[1..n -> TextNodes] : n \in 0..MaxNodes}}

\* What a direct call returned
Returned(raised, value) ==
    [returned |-> TRUE, raised |-> raised, value |-> value]

\* _extract_text(h_arg) is about to be called
InitText ==
    /\ CrawlIdle
    /\ AgentIdle
    /\ BatchIdle
    /\ h_fn = "_extract_text"
    /\ h_arg \in TextInputs
    /\ h_ret = NoResult

\* The call of _extract_text returns
CallExtractText ==
    /\ h_fn = "_extract_text"
    /\ ~h_ret.returned
    /\ h_ret' = Returned("none", ExtractText(Soup(h_arg)))
    /\ UNCHANGED <<crawlVars, agentVars, batchVars, log_file, h_fn, h_arg>>

NextText == CallExtractText

SpecText == InitText /\ [][NextText]_vars

\* The Content-Type headers of the responses handed to _fetch_page: "" is a
\* response without the header
ContentTypes ==
    {<<>>,
     <<"t", "e", "x", "t", "/", "h", "t", "m", "l">>,
     <<"t", "e", "x", "t", "/", "h", "t", "m", "l", ";", " ", "c", "h", "a",
             "r", "s", "e", "t", "=", "u", "t", "f", "-", "8">>,
     <<"T", "e", "x", "t", "/", "H", "T", "M", "L">>,
     <<"a", "p", "p", "l", "i", "c", "a", "t", "i", "o", "n", "/", "x", "h",
             "t", "m", "l", "+", "x", "m", "l">>,
     <<"a", "p", "p", "l", "i", "c", "a", "t", "i", "o", "n", "/", "x", "h",
             "t", "m", "l", "+", "x", "m", "l", ";", " ", "c", "h", "a", "r",
             "s", "e", "t", "=", "u", "t", "f", "-", "8">>,
     <<"a", "p", "p", "l", "i", "c", "a", "t", "i", "o", "n", "/", "x", "h",
             "t", "m", "l", "-", "v", "o", "i", "c", "e", "+", "x", "m", "l">>,
     <<"a", "p", "p", "l", "i", "c", "a", "t", "i", "o", "n", "/", "p", "d",
             "f">>,
     <<"a", "p", "p", "l", "i", "c", "a", "t", "i", "o", "n", "/", "j", "s",
             "o", "n">>,
     <<"i", "m", "a", "g", "e", "/", "p", "n", "g">>,
     <<"t", "e", "x", "t", "/", "p", "l", "a", "i", "n">>,
     <<"a", "p", "p", "l", "i", "c", "a", "t", "i", "o", "n", "/", "x", "m",
             "l">>}

\* The responses handed to _fetch_page: session.get raises, or answers
FetchInputs ==
    {Failing(e) : e \in DOMAIN ExceptionBases}
    \cup {Response("none", st, ct, body) :
            st \in {200, 204, 404, 500}, ct \in ContentTypes,
            body \in {Markup(PAGE_GOOD), Markup(<<>>)}}

\* _fetch_page(url, session) is about to be called, the network answering
\* with h_arg
InitFetch ==
    /\ CrawlIdle
    /\ AgentIdle
    /\ BatchIdle
    /\ h_fn = "_fetch_page"
    /\ h_arg \in FetchInputs
    /\ h_ret = NoResult

\* The call of _fetch_page returns, or raises
CallFetchPage ==
    /\ h_fn = "_fetch_page"
    /\ ~h_ret.returned
    /\ h_ret' = Returned(FetchPage(h_arg).raised, FetchPage(h_arg).value)
    /\ UNCHANGED <<crawlVars, agentVars, batchVars, log_file, h_fn, h_arg>>

NextFetch == CallFetchPage

SpecFetch == InitFetch /\ [][NextFetch]_vars

-----------------------------------------------------------------------------
(* Direct calls of _extract_emails *)

\* The pages of at most MaxNodes elements taken from pool
PagesOf(pool) ==
    {Markup(els) : els \in UNION {[1..n -> pool] : n \in 0..MaxNodes}}

\* The elements the pages handed to _extract_emails are made of: mailto:
\* links in either case, with a query, of the junk kinds, without an address;
\* addresses in the text; a link that is no mailto:
EmailNodes ==
    {Element("a", "body", <<"E", "m", "a", "i", "l", " ", "u", "s">>, <<"m",
            "a", "i", "l", "t", "o", ":", "S", "a", "l", "e", "s", "@", "A",
            "c", "m", "e", ".", "c", "o", "m">>),
     Element("a", "body", <<"S", "u", "p", "p", "o", "r", "t">>, <<" ", "M",
             "A", "I", "L", "T", "O", ":", "s", "u", "p", "p", "o", "r", "t",
             "@", "a", "c", "m", "e", ".", "c", "o", "m", "?", "s", "u", "b",
             "j", "e", "c", "t", "=", "H", "i", " ">>),
     Element("a", "body", <<"N", "o", " ", "r", "e", "p", "l", "y">>, <<"m",
             "a", "i", "l", "t", "o", ":", "N", "o", "R", "e", "p", "l", "y",
             "@", "a", "c", "m", "e", ".", "c", "o", "m">>),
     Element("a", "body", <<"I", "n", "f", "o">>, <<"m", "a", "i", "l", "t",
             "o", ":", "i", "n", "f", "o", "@", "e", "x", "a", "m", "p", "l",
             "e", ".", "c", "o", "m">>),
     Element("a", "body", <<"L", "o", "g", "o">>, <<"m", "a", "i", "l", "t",
             "o", ":", "l", "o", "g", "o", "@", "a", "c", "m", "e", ".", "s",
             "v", "g">>),
     Element("a", "body", <<"S", "a", "l", "e", "s">>, <<"m", "a", "i", "l",
             "t", "o", ":", "s", "a", "l", "e", "s">>),
     Element("a", "body", <<"C", "o", "n", "t", "a", "c", "t">>, <<"/", "c",
             "o", "n", "t", "a", "c", "t">>),
     Element("p", "body", <<"W", "r", "i", "t", "e", " ", "t", "o", " ", "s",
             "a", "l", "e", "s", "@", "a", "c", "m", "e", ".", "c", "o", "m",
             " ", "o", "r", " ", "i", "c", "o", "n", "@", "2", "x", ".", "p",
             "n", "g">>, <<>>),
     Element("p", "body", <<"w", "e", "b", "m", "a", "s", "t", "e", "r", "@",
             "a", "c", "m", "e", ".", "c", "o", "m", ",", " ", "J", "a", "n",
             "e", "@", "A", "c", "m", "e", ".", "c", "o", "m", ".">>, <<>>),
     Element("p", "body", <<"e", "r", "r", "o", "r", "s", "@", "s", "e", "n",
             "t", "r", "y", ".", "i", "o">>, <<>>)}

\* _extract_emails(h_arg) is about to be called
InitEmails ==
    /\ CrawlIdle
    /\ AgentIdle
    /\ BatchIdle
    /\ h_fn = "_extract_emails"
    /\ h_arg \in PagesOf(EmailNodes)
    /\ h_ret = NoResult

\* The call of _extract_emails returns
CallExtractEmails ==
    /\ h_fn = "_extract_emails"
    /\ ~h_ret.returned
    /\ h_ret' = Returned("none", ExtractEmails(Soup(h_arg)))
    /\ UNCHANGED <<crawlVars, agentVars, batchVars, log_file, h_fn, h_arg>>

NextEmails == CallExtractEmails

SpecEmails == InitEmails /\ [][NextEmails]_vars

-----------------------------------------------------------------------------
(* Direct calls of _discover_links *)

\* The a tags the pages handed to _discover_links are made of: relative and
\* absolute links of the site, links of another host, hrefs that are no
\* pages, links with two keywords or none, and two links to one page
LinkNodes ==
    {Element("a", "body", <<"A", "b", "o", "u", "t", " ", "U", "s">>, <<"/",
            "a", "b", "o", "u", "t">>),
     Element("a", "body", <<"A", "b", "o", "u", "t">>, <<"h", "t", "t", "p",
             "s", ":", "/", "/", "e", "x", "t", "e", "r", "n", "a", "l", ".",
             "c", "o", "m", "/", "a", "b", "o", "u", "t">>),
     Element("a", "body", <<"C", "o", "n", "t", "a", "c", "t">>, <<"m", "a",
             "i", "l", "t", "o", ":", "c", "o", "n", "t", "a", "c", "t", "@",
             "a", "c", "m", "e", ".", "c", "o", "m">>),
     Element("a", "body", <<"C", "o", "n", "t", "a", "c", "t">>, <<"M", "A",
             "I", "L", "T", "O", ":", "i", "n", "f", "o", "@", "a", "c", "m",
             "e", ".", "c", "o", "m">>),
     Element("a", "body", <<"C", "o", "n", "t", "a", "c", "t", " ", "s", "a",
             "l", "e", "s">>, <<"t", "e", "l", ":", "+", "1", "5", "5", "5",
             "0", "1", "0", "0">>),
     Element("a", "body", <<"A", "b", "o", "u", "t">>, <<"#", "a", "b", "o",
             "u", "t">>),
     Element("a", "body", <<"C", "o", "n", "t", "a", "c", "t">>, <<"j", "a",
             "v", "a", "s", "c", "r", "i", "p", "t", ":", "o", "p", "e", "n",
             "C", "o", "n", "t", "a", "c", "t", "(", ")">>),
     Element("a", "body", <<"R", "e", "a", "d">>, <<"/", "/", "a", "c", "m",
             "e", ".", "c", "o", "m", "/", "b", "l", "o", "g", "/">>),
     Element("a", "body", <<"P", "e", "o", "p", "l", "e">>, <<"t", "e", "a",
             "m">>),
     Element("a", "body", <<"P", "l", "a", "n", "s">>, <<"h", "t", "t", "p",
             "s", ":", "/", "/", "A", "C", "M", "E", ".", "c", "o", "m", "/",
             "P", "r", "i", "c", "i", "n", "g">>),
     Element("a", "body", <<"O", "u", "r", " ", "b", "l", "o", "g">>, <<"/",
             "c", "o", "n", "t", "a", "c", "t", "-", "u", "s">>),
     Element("a", "body", <<"T", "e", "r", "m", "s">>, <<"/", "l", "e", "g",
             "a", "l">>),
     Element("a", "body", <<"A", "b", "o", "u", "t">>, <<"/", "i", "n", "f",
             "o">>),
     Element("a", "body", <<" ", "O", "u", "r", " ", "B", "L", "O", "G",
             " ">>, <<" ", "/", "i", "n", "f", "o", "/", " ">>),
     Element("a", "body", <<"H", "o", "m", "e">>, <<"/">>)}

\* The base urls _discover_links is called with
LinkBases == {<<"h", "t", "t", "p", "s", ":", "/", "/", "a", "c", "m", "e",
        ".", "c", "o", "m">>, <<"h", "t", "t", "p", "s", ":", "/", "/", "a",
        "c", "m", "e", ".", "c", "o", "m", "/", "e", "n", "/">>}

\* The calls of _discover_links: small pages of LinkNodes, and the stretches
\* of the homepage with more links than the cap lets through
LinkInputs ==
    {[html |-> page, base_url |-> base] :
        page \in PagesOf(LinkNodes), base \in LinkBases}
    \cup {[html |-> Markup(SubSeq(HOME_MANY, i, j)),
           base_url |-> <<"h", "t", "t", "p", "s", ":", "/", "/", "a", "c",
                   "m", "e", ".", "c", "o", "m">>] :
            i \in 1..Len(HOME_MANY), j \in 1..Len(HOME_MANY)}

\* _discover_links(h_arg.html, h_arg.base_url) is about to be called
InitLinks ==
    /\ CrawlIdle
    /\ AgentIdle
    /\ BatchIdle
    /\ h_fn = "_discover_links"
    /\ h_arg \in LinkInputs
    /\ h_ret = NoResult

\* The call of _discover_links returns
CallDiscoverLinks ==
    /\ h_fn = "_discover_links"
    /\ ~h_ret.returned
    /\ h_ret' = Returned("none",
                         DiscoverLinks(Soup(h_arg.html), h_arg.base_url))
    /\ UNCHANGED <<crawlVars, agentVars, batchVars, log_file, h_fn, h_arg>>

NextLinks == CallDiscoverLinks

SpecLinks == InitLinks /\ [][NextLinks]_vars

-----------------------------------------------------------------------------
(* Direct calls of _extract_company_name *)

OG_SITE_NAME == <<"o", "g", ":", "s", "i", "t", "e", "_", "n", "a", "m", "e">>

\* The elements the pages handed to _extract_company_name are made of: site
\* name tags with a plain, a padded and an empty content, titles with one
\* separator, with several, with a dash that no spaces surround, with no
\* text, and a heading
NameNodes ==
    {Meta(OG_SITE_NAME, <<"A", "c", "m", "e", " ", "C", "o", "r", "p">>),
     Meta(OG_SITE_NAME, <<" ", " ", "A", "c", "m", "e", " ", " ">>),
     Meta(OG_SITE_NAME, <<>>),
     Element("title", "head", <<"B", "i", "g", "C", "o", " ", "|", " ", "E",
             "n", "t", "e", "r", "p", "r", "i", "s", "e", " ", "S", "o", "l",
             "u", "t", "i", "o", "n", "s">>, <<>>),
     Element("title", "head", <<"A", "c", "m", "e", "-", "C", "o", "r",
             "p">>, <<>>),
     Element("title", "head", <<" ", "O", "n", "e", " ", "-", " ", "T", "w",
             "o", " ", "|", " ", "T", "h", "r", "e", "e", " ">>, <<>>),
     Element("title", "head", <<"N", "i", "n", "e", " ", ":", ":", " ", "T",
             "e", "n", " ", "-", " ", "E", "l", "e", "v", "e", "n">>, <<>>),
     Element("title", "head",
             <<"A", "c", "m", "e", " ", "EM_DASH", " ", "H", "o", "m", "e">>,
             <<>>),
     Element("title", "head", <<>>, <<>>),
     Element("h1", "body", <<"W", "e", "l", "c", "o", "m", "e">>, <<>>)}

\* The urls _extract_company_name is called with
NameUrls ==
    {<<"h", "t", "t", "p", "s", ":", "/", "/", "w", "w", "w", ".", "c", "o",
            "o", "l", "s", "t", "a", "r", "t", "u", "p", ".", "i", "o">>,
            <<"h", "t", "t", "p", "s", ":", "/", "/", "a", "c", "m", "e",
            ".", "c", "o", "m">>,
     <<"h", "t", "t", "p", "s", ":", "/", "/", "s", "h", "o", "p", "w", "w",
             "w", ".", "a", "c", "m", "e", ".", "c", "o", "m">>}

\* _extract_company_name(h_arg.html, h_arg.url) is about to be called
InitName ==
    /\ CrawlIdle
    /\ AgentIdle
    /\ BatchIdle
    /\ h_fn = "_extract_company_name"
    /\ h_arg \in {[html |-> page, url |-> u] :
                    page \in PagesOf(NameNodes), u \in NameUrls}
    /\ h_ret = NoResult

\* The call of _extract_company_name returns
CallExtractCompanyName ==
    /\ h_fn = "_extract_company_name"
    /\ ~h_ret.returned
    /\ h_ret' = Returned("none",
                         ExtractCompanyName(Soup(h_arg.html), h_arg.url))
    /\ UNCHANGED <<crawlVars, agentVars, batchVars, log_file, h_fn, h_arg>>

NextName == CallExtractCompanyName

SpecName == InitName /\ [][NextName]_vars

-----------------------------------------------------------------------------
(* Direct calls of send_email *)

\* What the log file holds when send_email is called
SendFiles ==
    {LogFile("missing", <<>>), LogFile("corrupt", <<>>),
     LogFile("undecodable", <<>>), LogFile("records", <<>>),
     LogFile("records",
             <<OutreachRecord([prospect_url |-> <<"h", "t", "t", "p", "s",
                     ":", "/", "/", "o", "l", "d", ".", "i", "o">>,
                               prospect_name |-> <<"O", "l", "d">>,
                               recipient_email |-> <<"o", "l", "d", "@", "o",
                                       "l", "d", ".", "i", "o">>,
                               email_subject |-> <<"H", "e", "l", "l", "o">>,
                               email_body |-> <<"H", "i">>,
                               status |-> Markup(<<"s", "e", "n", "t">>)])>>)}

\* send_email(draft, to_address, ...) is about to be called with the log
\* file at h_arg.file; its SMTP sessions will end as h_arg.smtp says and the
\* write_text calls of _log_outreach as h_arg.writes says
InitSend ==
    /\ CrawlIdle
    /\ AgentIdle
    /\ batch_pc = "idle" /\ batch_urls = <<>> /\ results = <<>>
    /\ log_file \in SendFiles
    /\ h_fn = "send_email"
    /\ h_arg \in [file : {log_file},
                  draft : {[subject |-> <<"Q", "u", "i", "c", "k", " ", "q",
                          "u", "e", "s", "t", "i", "o", "n">>,
                          body |-> <<"H", "i", " ", "t", "h", "e", "r", "e",
                          ".", ".", ".">>]},
                  to_address : {<<"c", "e", "o", "@", "a", "c", "m", "e",
                          ".", "c", "o", "m">>},
                  smtp : [1..MAX_RETRIES -> SmtpOutcomes],
                  writes : [1..MAX_RETRIES + 1 -> WriteOutcomes]]
    /\ h_ret = NoResult

\* The call of send_email returns or raises
CallSendEmail ==
    /\ h_fn = "send_email"
    /\ ~h_ret.returned
    /\ LET got == SendEmail(log_file, h_arg.draft, h_arg.to_address,
                            <<"h", "t", "t", "p", "s", ":", "/", "/", "a",
                                    "c", "m", "e", ".", "c", "o", "m">>,
                                    <<"A", "c", "m", "e", " ", "C", "o", "r",
                                    "p">>, h_arg.smtp,
                            h_arg.writes)
       IN  /\ h_ret' = [returned |-> TRUE, raised |-> got.raised,
                        value |-> got.value, attempts |-> got.attempts,
                        delivered |-> got.delivered]
           /\ log_file' = got.file
    /\ UNCHANGED <<crawlVars, agentVars, batchVars, h_fn, h_arg>>

NextSend == CallSendEmail

SpecSend == InitSend /\ [][NextSend]_vars

-----------------------------------------------------------------------------

(* Direct calls of _log_outreach, get_outreach_log, update_outreach_record *)

\* The most records the log file is let grow to
MaxLog == 2

\* What the log file holds before the first call
LogFiles ==
    {LogFile("missing", <<>>), LogFile("corrupt", <<>>),
     LogFile("undecodable", <<>>), LogFile("records", <<>>)}

\* The records handed to _log_outreach
LogRecords ==
    {OutreachRecord([prospect_url |-> <<"h", "t", "t", "p", "s", ":", "/",
            "/", "a", "c", "m", "e", ".", "c", "o", "m">>,
                     prospect_name |-> <<"A", "c", "m", "e">>,
                     recipient_email |-> <<"c", "e", "o", "@", "a", "c", "m",
                             "e", ".", "c", "o", "m">>,
                     email_subject |-> <<"H", "e", "l", "l", "o">>,
                     email_body |-> <<"H", "i">>,
                     status |-> Markup(<<"s", "e", "n", "t">>)]),
     OutreachRecord([prospect_url |-> <<"h", "t", "t", "p", "s", ":", "/",
             "/", "b", "e", "t", "a", ".", "i", "o">>,
                     prospect_name |-> <<"B", "e", "t", "a">>,
                     recipient_email |-> <<"i", "n", "f", "o", "@", "b", "e",
                             "t", "a", ".", "i", "o">>,
                     email_subject |-> <<"H", "e", "l", "l", "o">>,
                     email_body |-> <<"H", "i">>,
                     status |-> Markup(<<"f", "a", "i", "l", "e", "d">>),
                     error_message |-> Markup(<<"R", "e", "c", "i", "p", "i",
                             "e", "n", "t", " ", "r", "e", "f", "u", "s",
                             "e", "d", ":", " ", "5", "5", "0">>)])}

\* The keyword arguments handed to update_outreach_record: declared fields,
\* a None for a str field, and a name that is no field beside a declared one
UpdateFields ==
    {[status |-> Markup(<<"r", "e", "p", "l", "i", "e", "d">>)],
     [status |-> Markup(<<"r", "e", "p", "l", "i", "e", "d">>),
      notes |-> Markup(<<"c", "a", "l", "l", " ", "b", "a", "c", "k">>)],
     [status |-> None],
     [notes |-> Markup(<<"c", "a", "l", "l", " ", "b", "a", "c", "k">>),
      bogus |-> Markup(<<"x">>)]}

\* No call has been made yet
InitLog ==
    /\ CrawlIdle
    /\ AgentIdle
    /\ batch_pc = "idle" /\ batch_urls = <<>> /\ results = <<>>
    /\ log_file \in LogFiles
    /\ CallIdle

\* A call of _log_outreach(record), made while the log has room
CallLogOutreach ==
    /\ Len(log_file.records) < MaxLog
    /\ \E record \in LogRecords, write \in WriteOutcomes :
        /\ h_arg' = [file |-> log_file, record |-> record, write |-> write]
        /\ h_ret' = Returned(LogOutreach(log_file, record, write).raised,
                             None)
        /\ log_file' = LogOutreach(log_file, record, write).file
    /\ h_fn' = "_log_outreach"
    /\ UNCHANGED <<crawlVars, agentVars, batchVars>>

\* A call of get_outreach_log()
CallGetOutreachLog ==
    /\ h_fn' = "get_outreach_log"
    /\ h_arg' = [file |-> log_file]
    /\ h_ret' = Returned(GetOutreachLog(log_file).raised,
                         GetOutreachLog(log_file).value)
    /\ UNCHANGED <<crawlVars, agentVars, batchVars, log_file>>

\* A call of update_outreach_record(index, **fields)
CallUpdateOutreachRecord ==
    /\ \E index \in -1..MaxLog, fields \in UpdateFields,
          write \in WriteOutcomes :
        LET got == UpdateOutreachRecord(log_file, index, fields, write) IN
        /\ h_arg' = [file |-> log_file, index |-> index, fields |-> fields,
                     write |-> write]
        /\ h_ret' = Returned(got.raised, got.value)
        /\ log_file' = got.file
    /\ h_fn' = "update_outreach_record"
    /\ UNCHANGED <<crawlVars, agentVars, batchVars>>

NextLog ==
    \/ CallLogOutreach
    \/ CallGetOutreachLog
    \/ CallUpdateOutreachRecord

SpecLog == InitLog /\ [][NextLog]_vars

-----------------------------------------------------------------------------

(* Properties of scrape_website *)

\* The seeds all normalize to this url
BASE_URL == <<"h", "t", "t", "p", "s", ":", "/", "/", "a", "c", "m", "e",
        ".", "c", "o", "m">>

HOMEPAGE == <<"h", "o", "m", "e", "p", "a", "g", "e">>

IsFetch(e) == e.op = "fetch"

\* The fetches of the secondary pages, in the order they were made
SecondaryFetches == Tail(SelectSeq(events, IsFetch))

\* The homepage could not be had: the fetch gave nothing and the rendering
\* is off, or gave nothing either
HomepageUnavailable ==
    /\ events # <<>>
    /\ ~Truthy(events[1].ret)
    /\ \/ ~use_pw
       \/ /\ Len(events) >= 2
          /\ events[2].op = "render"
          /\ ~Truthy(events[2].ret)

\* C1: when the plain fetch of the homepage yields no content and the
\* rendering is disabled, or enabled and yields no content as well, the crawl
\* returns a corpus with no pages, an empty company name, an empty summary
\* and the normalized seed as base_url, and it has made no link discovery, no
\* rate-limit sleep and no fetch of a secondary page.
C1_EmptyCorpus ==
    HomepageUnavailable =>
        /\ pc = "done"
        /\ result = [base_url |-> BASE_URL, company_name |-> <<>>,
                     pages |-> <<>>, raw_text_summary |-> <<>>]
        /\ \A i \in 1..Len(events) :
              events[i].op \in {"fetch", "render"} /\ events[i].url = BASE_URL
        /\ SecondaryFetches = <<>>

\* The fetch answered with an empty body, the rendering failed, and the
\* crawl of "acme.com/" has returned
C1_Witness ==
    /\ pc = "done"
    /\ seed # BASE_URL
    /\ use_pw
    /\ HomepageUnavailable
    /\ events[1].ret = Markup(<<>>)

\* C2 as the specification states it: the returned corpus carries the
\* contact emails the crawl collected from the homepage and from every
\* secondary page it recorded.  The corpus has no such field.
C2_CorpusCarriesEmails ==
    pc = "done" /\ result.pages # <<>> =>
        /\ "contact_emails" \in DOMAIN result
        /\ result.contact_emails = all_emails

\* The block of the summary for the i-th page, the blank line that parts it
\* from the block before included
ExpectedBlock(pgs, i) ==
    (IF i = 1 THEN <<>> ELSE <<"\n", "\n">>)
    \o <<"=", "=", "=", " ">> \o Upper(pgs[i].page_type) \o <<":",
            " ">> \o pgs[i].title
    \o <<" ", "=", "=", "=">> \o <<"\n">> \o pgs[i].content

\* C3: raw_text_summary is the blocks "=== <PAGE TYPE IN UPPER CASE>:
\* <title> ===", line break, content, one per returned page in page order,
\* joined by a blank line; it is empty when there are no pages.
C3_SummaryOfPages ==
    pc = "done" =>
        result.raw_text_summary =
            Flatten([i \in 1..Len(result.pages) |->
                        ExpectedBlock(result.pages, i)])

\* A crawl has returned three pages or more
C3_Witness == pc = "done" /\ Len(result.pages) >= 3

\* C4: in a returned corpus with pages, the first page is the homepage (its
\* url is the normalized base url and its type "homepage") and no later page
\* has the type "homepage".
C4_HomepageFirst ==
    pc = "done" /\ result.pages # <<>> =>
        /\ result.pages[1].url = BASE_URL
        /\ result.pages[1].url = result.base_url
        /\ result.pages[1].page_type = HOMEPAGE
        /\ \A i \in 2..Len(result.pages) :
              result.pages[i].page_type # HOMEPAGE

\* The crawl of "acme.com/" has returned the homepage and more pages
C4_Witness == pc = "done" /\ seed # BASE_URL /\ Len(result.pages) >= 3

\* C5: the page urls of a crawl are pairwise different, in the pages
\* collected so far and in the returned corpus.
C5_UniqueUrls ==
    /\ \A i, j \in 1..Len(pages) : pages[i].url = pages[j].url => i = j
    /\ pc = "done" => result.pages = pages

\* A crawl has returned from a homepage that links twice to one page and to
\* itself, with some of those pages recorded
C5_Witness ==
    /\ pc = "done"
    /\ homepage_html = Markup(HOME_MANY)
    /\ Len(result.pages) >= 5

\* The plain fetch gave a homepage of less than 100 characters of text and
\* the rendering is enabled
FetchedThin ==
    /\ events # <<>>
    /\ Truthy(events[1].ret)
    /\ use_pw
    /\ Len(ExtractText(Soup(events[1].ret))) < 100

\* The homepage is settled as the page html
HomepageIs(html) ==
    /\ homepage_html = html
    /\ pages # <<>>
    /\ pages[1].content = ExtractText(Soup(html))
    /\ pages[1].title = ExtractTitle(Soup(html))
    /\ linked_pages = DiscoverLinks(Soup(html), url)

\* The rendering (rendered) takes the place of the fetched page (static)
\* exactly when it is markup with a strictly longer text
HomepageChosen(static, rendered) ==
    IF /\ Truthy(rendered)
       /\ Len(ExtractText(Soup(rendered))) > Len(ExtractText(Soup(static)))
    THEN HomepageIs(rendered)
    ELSE HomepageIs(static)

\* C6: when the fetched homepage has less than 100 characters of text and
\* the rendering is enabled, the crawl renders the homepage, and the homepage
\* record comes from the rendered page exactly when the rendering returned
\* markup whose text is strictly longer than the fetched page's; otherwise
\* the fetched page is kept.
C6_RenderReplacesThin ==
    FetchedThin /\ pc # "render_thin" =>
        /\ Len(events) >= 2
        /\ events[2].op = "render"
        /\ events[2].url = url
        /\ HomepageChosen(events[1].ret, events[2].ret)

\* A thin homepage was rendered and the rendering, being longer, kept
C6_Witness ==
    /\ FetchedThin
    /\ pc = "done"
    /\ homepage_html = Markup(RENDERED_RICH)
    /\ result.pages[1].content = ExtractText(RENDERED_RICH)

\* The fetch e gave a page with text enough to be recorded
IsRecorded(e) == Truthy(e.ret) /\ Len(ExtractText(Soup(e.ret))) >= 30

UrlsOf(recs) == [i \in 1..Len(recs) |-> recs[i].url]

\* C7: a secondary page whose fetch yields no content, or less than 30
\* characters of text, gets no page record and does not end the crawl: every
\* discovered link is fetched, in order, the pages after the homepage are
\* exactly the fetched ones with text enough, and the returned corpus has the
\* homepage record.
C7_SkipAndGoOn ==
    /\ pc # "raised"
    /\ pc = "done" /\ result.pages # <<>> =>
        /\ UrlsOf(SecondaryFetches)
               = [i \in 1..Len(linked_pages) |-> linked_pages[i][1]]
        /\ UrlsOf(SelectSeq(SecondaryFetches, IsRecorded))
               = UrlsOf(Tail(result.pages))
        /\ result.pages[1].page_type = HOMEPAGE

\* A crawl has returned after a secondary fetch that gave nothing, a
\* secondary page that was thin, and a later page that was recorded
C7_Witness ==
    /\ pc = "done"
    /\ \E i, j, k \in 1..Len(SecondaryFetches) :
          /\ i < k /\ j < k
          /\ ~Truthy(SecondaryFetches[i].ret)
          /\ Truthy(SecondaryFetches[j].ret)
          /\ ~IsRecorded(SecondaryFetches[j])
          /\ IsRecorded(SecondaryFetches[k])
          /\ result.pages[Len(result.pages)].url = SecondaryFetches[k].url

-----------------------------------------------------------------------------
(* Properties of _fetch_page *)

\* The request ends without an exception: session.get raises nothing and the
\* status is no 4xx or 5xx
Succeeds(resp) == resp.exc = "none" /\ resp.status \notin 400..599

\* The media type a Content-Type header names
MediaType(ct) == Lower(Strip(BeforeFirst(ct, <<";">>)))

IndicatesHtml(ct) ==
    MediaType(ct) \in {<<"t", "e", "x", "t", "/", "h", "t", "m", "l">>,
            <<"a", "p", "p", "l", "i", "c", "a", "t", "i", "o", "n", "/",
            "x", "h", "t", "m", "l", "+", "x", "m", "l">>}

\* C8 as the specification states it: the text is returned only for a
\* request that succeeds with the media type text/html or
\* application/xhtml+xml, any other content type gives None, and nothing is
\* raised.
C8_OnlyHtmlMediaTypes ==
    h_ret.returned =>
        /\ h_ret.raised = "none"
        /\ h_ret.value # None =>
              Succeeds(h_arg) /\ IndicatesHtml(h_arg.content_type)
        /\ ~(Succeeds(h_arg) /\ IndicatesHtml(h_arg.content_type)) =>
              h_ret.value = None

\* C8: _fetch_page returns the response text exactly when the request
\* succeeds and the Content-Type header contains "text/html" or
\* "application/xhtml"; otherwise it returns None; it raises nothing for a
\* timeout, an HTTP error status or a connection error.
C8_HtmlSubstring ==
    h_ret.returned =>
        /\ h_ret.raised = "none"
        /\ h_ret.value =
              IF /\ Succeeds(h_arg)
                 /\ \/ Contains(h_arg.content_type, <<"t", "e", "x", "t",
                         "/", "h", "t", "m", "l">>)
                    \/ Contains(h_arg.content_type, <<"a", "p", "p", "l",
                            "i", "c", "a", "t", "i", "o", "n", "/", "x", "h",
                            "t", "m", "l">>)
              THEN h_arg.text
              ELSE None

\* _fetch_page has returned the body of a response that is not of an HTML
\* media type
C8_Witness ==
    /\ h_fn = "_fetch_page"
    /\ h_ret.returned
    /\ h_ret.value = Markup(PAGE_GOOD)
    /\ ~IndicatesHtml(h_arg.content_type)

-----------------------------------------------------------------------------
(* Properties of _extract_text *)

\* The lines of the text _extract_text returned
ReturnedLines == SplitLines(h_ret.value)

\* The returned text was cut
WasCut == Len(h_ret.value) > MAX_CONTENT_LENGTH

\* C9 as the specification states it: the returned text is never longer than
\* MAX_CONTENT_LENGTH, the truncation marker counted.
C9_WithinLimit == h_ret.returned => Len(h_ret.value) <= MAX_CONTENT_LENGTH

\* C9: the returned text is never longer than MAX_CONTENT_LENGTH plus the
\* length of the truncation marker; a text longer than MAX_CONTENT_LENGTH is
\* MAX_CONTENT_LENGTH characters followed by the marker.
C9_WithinLimitAndMarker ==
    h_ret.returned =>
        /\ Len(h_ret.value) <= MAX_CONTENT_LENGTH + Len(TRUNCATION_MARKER)
        /\ WasCut =>
              /\ Len(h_ret.value)
                     = MAX_CONTENT_LENGTH + Len(TRUNCATION_MARKER)
              /\ EndsWith(h_ret.value, TRUNCATION_MARKER)

\* _extract_text has returned a cut text
C9_Witness == h_fn = "_extract_text" /\ h_ret.returned /\ WasCut

\* C10 as the specification states it: every line of the returned text has
\* at least 3 characters, cut or not.
C10_NoShortLine ==
    h_ret.returned =>
        \A i \in 1..Len(ReturnedLines) : Len(ReturnedLines[i]) >= 3

\* C10: every line of the returned text has at least 3 characters, except
\* that in a cut text the line before the marker, where the cut fell, may be
\* shorter.
C10_NoShortLineButTheCut ==
    h_ret.returned =>
        \A i \in 1..Len(ReturnedLines) :
            \/ Len(ReturnedLines[i]) >= 3
            \/ WasCut /\ i = Len(ReturnedLines) - 1

\* _extract_text has returned a cut text whose line before the marker has
\* less than 3 characters
C10_Witness ==
    /\ h_fn = "_extract_text"
    /\ h_ret.returned
    /\ WasCut
    /\ Len(ReturnedLines[Len(ReturnedLines) - 1]) < 3

-----------------------------------------------------------------------------
(* Properties of _extract_emails *)

\* The local parts of the addresses no person reads
NON_HUMAN_LOCAL_PARTS ==
    {<<"n", "o", "r", "e", "p", "l", "y">>, <<"n", "o", "-", "r", "e", "p",
            "l", "y">>, <<"d", "o", "n", "o", "t", "r", "e", "p", "l", "y">>,
            <<"m", "a", "i", "l", "e", "r", "-", "d", "a", "e", "m", "o",
            "n">>, <<"p", "o", "s", "t", "m", "a", "s", "t", "e", "r">>,
     <<"w", "e", "b", "m", "a", "s", "t", "e", "r">>, <<"h", "o", "s", "t",
             "m", "a", "s", "t", "e", "r">>}

\* The address is of one of the junk kinds: a non-human local part, a
\* placeholder domain, or a file extension at its end
IsFiltered(a) ==
    \/ BeforeFirst(a, <<"@">>) \in NON_HUMAN_LOCAL_PARTS
    \/ AfterFirst(a, <<"@">>) \in _JUNK_EMAIL_DOMAINS
    \/ \E ext \in _JUNK_EMAIL_EXTENSIONS : EndsWith(a, ext)

\* The address the mailto: link e names, in lower case: what follows the
\* scheme, up to the query
MailtoAddress(e) ==
    Lower(Strip(BeforeFirst(Drop(Strip(e.href), 7), <<"?">>)))

\* e is a mailto: link that names an address
NamesAddress(e) ==
    /\ e.tag = "a"
    /\ Lower(Take(Strip(e.href), 7)) = <<"m", "a", "i", "l", "t", "o", ":">>
    /\ Contains(MailtoAddress(e), <<"@">>)

\* C11: the list _extract_emails returns holds only lower-case addresses,
\* holds none twice, and holds none with a non-human local part, on a
\* placeholder domain or ending in an image, stylesheet or script extension;
\* the address of a mailto: link that is of none of these kinds is in it.
C11_EmailsFiltered ==
    h_ret.returned =>
        /\ \A i \in 1..Len(h_ret.value) :
              /\ Lower(h_ret.value[i]) = h_ret.value[i]
              /\ ~IsFiltered(h_ret.value[i])
              /\ \A j \in 1..Len(h_ret.value) :
                    h_ret.value[i] = h_ret.value[j] => i = j
        /\ \A k \in 1..Len(h_arg.dom) :
              NamesAddress(h_arg.dom[k])
              /\ ~IsFiltered(MailtoAddress(h_arg.dom[k]))
              => \E i \in 1..Len(h_ret.value) :
                    h_ret.value[i] = MailtoAddress(h_arg.dom[k])

\* _extract_emails has returned the lower-cased address of a mailto: link
\* written in upper case, for a page that also has a junk mailto: link
C11_Witness ==
    /\ h_fn = "_extract_emails"
    /\ h_ret.returned
    /\ h_ret.value = <<<<"s", "a", "l", "e", "s", "@", "a", "c", "m", "e",
            ".", "c", "o", "m">>>>
    /\ Len(h_arg.dom) = 2
    /\ h_arg.dom[1].href = <<"m", "a", "i", "l", "t", "o", ":", "N", "o",
            "R", "e", "p", "l", "y", "@", "a", "c", "m", "e", ".", "c", "o",
            "m">>
    /\ h_arg.dom[2].href = <<"m", "a", "i", "l", "t", "o", ":", "S", "a",
            "l", "e", "s", "@", "A", "c", "m", "e", ".", "c", "o", "m">>

-----------------------------------------------------------------------------
(* Properties of _discover_links *)

\* The host of a parsed url, in lower case
HostOf(parsed) == Lower(parsed.netloc)

\* The href names no page: an anchor of the page itself, or a mailto:, tel:
\* or javascript: url
NamesNoPage(href) ==
    \E prefix \in {<<"#">>, <<"m", "a", "i", "l", "t", "o", ":">>, <<"t",
            "e", "l", ":">>, <<"j", "a", "v", "a", "s", "c", "r", "i", "p",
            "t", ":">>} :
        StartsWith(Lower(href), prefix)

\* The a tag e has an href that may name a page
IsPageLink(e) ==
    e.tag = "a" /\ Strip(e.href) # <<>> /\ ~NamesNoPage(Strip(e.href))

\* The url the a tag e points to, resolved against base and parsed
Resolved(e, base) == UrlParse(UrlJoin(base, Strip(e.href)))

\* The normalized form of a parsed url: scheme, host and path, without the
\* slashes at its end
Normalized(parsed) ==
    RStripChar(parsed.scheme \o <<":", "/",
            "/">> \o parsed.netloc \o parsed.path, "/")

\* The positions in the keyword table of the keywords that occur in the
\* path of the parsed url or in the text, whatever the case
KeywordsIn(parsed, text) ==
    {n \in 1..Len(PAGE_KEYWORDS) :
        \/ Contains(Lower(parsed.path), PAGE_KEYWORDS[n][1])
        \/ Contains(Lower(text), PAGE_KEYWORDS[n][1])}

\* The a tag e, which resolves to the parsed url, is a link of the host of
\* base with a keyword, to another page than base
IsCandidateAs(e, parsed, base) ==
    /\ IsPageLink(e)
    /\ HostOf(parsed) = HostOf(UrlParse(base))
    /\ KeywordsIn(parsed, e.text) # {}
    /\ Normalized(parsed) # Normalized(UrlParse(base))

IsCandidate(e, base) == IsCandidateAs(e, Resolved(e, base), base)

\* The urls _discover_links returned
ReturnedUrls == [i \in 1..Len(h_ret.value) |-> h_ret.value[i][1]]

\* C12: _discover_links returns no link to another host than the base
\* url's, whatever keyword it matches, and none that comes from an href that
\* is an anchor, a mailto:, a tel: or a javascript: url; hrefs are resolved
\* against the base url before the hosts are compared.
C12_SameHostPagesOnly ==
    h_ret.returned =>
        \A i \in 1..Len(h_ret.value) :
            /\ HostOf(UrlParse(ReturnedUrls[i]))
                   = HostOf(UrlParse(h_arg.base_url))
            /\ \E k \in 1..Len(h_arg.html.dom) :
                  /\ IsPageLink(h_arg.html.dom[k])
                  /\ Normalized(Resolved(h_arg.html.dom[k], h_arg.base_url))
                         = ReturnedUrls[i]

\* _discover_links has returned the one link of the site, resolved from a
\* relative href, of a page that also links to another host with a keyword
C12_Witness ==
    /\ h_fn = "_discover_links"
    /\ h_ret.returned
    /\ Len(h_arg.html.dom) = 2
    /\ h_arg.html.dom[1].href = <<"h", "t", "t", "p", "s", ":", "/", "/",
            "e", "x", "t", "e", "r", "n", "a", "l", ".", "c", "o", "m", "/",
            "a", "b", "o", "u", "t">>
    /\ h_arg.html.dom[2].href = <<"t", "e", "a", "m">>
    /\ ReturnedUrls = <<<<"h", "t", "t", "p", "s", ":", "/", "/", "a", "c",
            "m", "e", ".", "c", "o", "m", "/", "e", "n", "/", "t", "e", "a",
            "m">>>>

\* The positions of the urls that occur at no earlier position
FirstSeen(urls) ==
    LET IsFirst(i) == \A j \in 1..(i - 1) : urls[j] # urls[i]
    IN SelectSeq([i \in 1..Len(urls) |-> i], IsFirst)

\* The urls at the first n of the positions given, or at all of them
FirstOf(urls, positions, n) ==
    [i \in 1..(IF Len(positions) < n THEN Len(positions) ELSE n) |->
        urls[positions[i]]]

\* The normalized urls of the candidate links of a page, in document order
CandidateUrls(dom, base) ==
    LET Is(e) == IsCandidate(e, base)
        UrlOf(e) == Normalized(Resolved(e, base))
    IN Map(UrlOf, SelectSeq(dom, Is))

\* The urls to return for the candidate urls given
ExpectedUrls(urls) == FirstOf(urls, FirstSeen(urls), MAX_PAGES - 1)

\* C13: _discover_links returns the links of the host with a keyword, each
\* normalized url (scheme, host and path, trailing slash stripped) once, the
\* base url itself left out, in the order the urls first appear in the
\* markup, and only the first MAX_PAGES - 1 of them.
C13_FirstSevenInOrder ==
    h_ret.returned =>
        ReturnedUrls = ExpectedUrls(CandidateUrls(h_arg.html.dom,
                                                  h_arg.base_url))

\* _discover_links has returned 7 links of the homepage that has 9, one of
\* them twice, and a link to itself
C13_Witness ==
    /\ h_fn = "_discover_links"
    /\ h_ret.returned
    /\ h_arg.html = Markup(HOME_MANY)
    /\ Len(h_ret.value) = MAX_PAGES - 1
    /\ Len(CandidateUrls(HOME_MANY, h_arg.base_url)) > MAX_PAGES

\* The first candidate link of the page to the url u
FirstLinkTo(dom, base, u) ==
    LET Is(e) == IsCandidate(e, base) /\ Normalized(Resolved(e, base)) = u
    IN SelectSeq(dom, Is)[1]

\* The page type of the first keyword of the table among those at the
\* positions given
FirstType(positions) ==
    PAGE_KEYWORDS[CHOOSE n \in positions : \A m \in positions : n <= m][2]

\* The page type the a tag e is to be tagged with
TypeOfLink(e, base) == FirstType(KeywordsIn(Resolved(e, base), e.text))

\* C14: each link _discover_links returns is tagged with the page type of
\* the first keyword of the table that occurs, whatever the case, in the
\* path or the text of the first link to its url that has a keyword; a link
\* without a keyword is not returned, and every tag is one of about,
\* services, blog and contact.
C14_FirstKeywordTags ==
    h_ret.returned =>
        \A i \in 1..Len(h_ret.value) :
            /\ \E k \in 1..Len(h_arg.html.dom) :
                  /\ IsCandidate(h_arg.html.dom[k], h_arg.base_url)
                  /\ Normalized(Resolved(h_arg.html.dom[k], h_arg.base_url))
                         = ReturnedUrls[i]
            /\ h_ret.value[i][2]
                   = TypeOfLink(FirstLinkTo(h_arg.html.dom, h_arg.base_url,
                                            ReturnedUrls[i]),
                                h_arg.base_url)
            /\ h_ret.value[i][2] \in {<<"a", "b", "o", "u", "t">>, <<"s",
                    "e", "r", "v", "i", "c", "e", "s">>, <<"b", "l", "o",
                    "g">>, <<"c", "o", "n", "t", "a", "c", "t">>}

\* _discover_links has tagged a page that two links name with the keyword of
\* the first, found in its text in upper case
C14_Witness ==
    /\ h_fn = "_discover_links"
    /\ h_ret.returned
    /\ Len(h_arg.html.dom) = 2
    /\ h_arg.html.dom[1].text = <<" ", "O", "u", "r", " ", "B", "L", "O",
            "G", " ">>
    /\ h_arg.html.dom[2].text = <<"A", "b", "o", "u", "t">>
    /\ h_arg.html.dom[2].href = <<"/", "i", "n", "f", "o">>
    /\ h_ret.value = << <<<<"h", "t", "t", "p", "s", ":", "/", "/", "a", "c",
            "m", "e", ".", "c", "o", "m", "/", "i", "n", "f", "o">>, <<"b",
            "l", "o", "g">>>> >>

-----------------------------------------------------------------------------
(* Properties of _extract_company_name *)

\* The site name tags and the titles of the page handed over
SiteNameTags ==
    LET Is(e) == e.tag = "meta" /\ e.property = OG_SITE_NAME
    IN SelectSeq(h_arg.html.dom, Is)

TitleTags ==
    LET Is(e) == e.tag = "title" IN SelectSeq(h_arg.html.dom, Is)

\* The separators as the specification lists them, and as strings that a
\* space precedes and follows
BARE_SEPARATORS ==
    << <<"|">>, <<"-">>, <<"EM_DASH">>, <<"EN_DASH">>, <<":", ":">> >>

SPACED_SEPARATORS ==
    [i \in 1..Len(BARE_SEPARATORS) |-> <<" ">> \o BARE_SEPARATORS[i] \o <<" ">>]

\* The part of the title before the first occurrence of the separator that
\* comes first in seps among those the title contains, trimmed; the title
\* when it contains none
PartBefore(title, seps) ==
    LET found == {i \in 1..Len(seps) : Contains(title, seps[i])}
    IN IF found = {} THEN title
       ELSE Strip(Take(title,
                       Find(title,
                            seps[CHOOSE i \in found :
                                    \A j \in found : i <= j])))

\* C15 as the specification states it: a site name tag that is present
\* gives exactly its value, the title ignored; else a title gives its part
\* before the first separator of "|", "-", em-dash, en-dash, "::" that
\* occurs in it, trimmed, or the whole trimmed title.
C15_MetaThenBareSeparators ==
    h_ret.returned =>
        IF SiteNameTags # <<>>
        THEN h_ret.value = SiteNameTags[1].content
        ELSE TitleTags # <<>> /\ TitleTags[1].text # <<>> =>
                h_ret.value
                    = PartBefore(Strip(TitleTags[1].text), BARE_SEPARATORS)

\* C15: the first site name tag, when its content is not empty, gives its
\* content trimmed, the title ignored; else a title with text gives the part
\* of the trimmed title before the first of " | ", " - ", " em-dash ",
\* " en-dash ", " :: " that occurs in it, trimmed, or the whole trimmed title
\* when none occurs; the domain is not used when the title has text.
C15_MetaThenSpacedSeparators ==
    h_ret.returned =>
        IF SiteNameTags # <<>> /\ SiteNameTags[1].content # <<>>
        THEN h_ret.value = Strip(SiteNameTags[1].content)
        ELSE TitleTags # <<>> /\ TitleTags[1].text # <<>> =>
                h_ret.value
                    = PartBefore(Strip(TitleTags[1].text), SPACED_SEPARATORS)

\* _extract_company_name has returned the trimmed content of the site name
\* tag of a page that has a title as well
C15_Witness ==
    /\ h_fn = "_extract_company_name"
    /\ h_ret.returned
    /\ Len(h_arg.html.dom) = 2
    /\ h_arg.html.dom[1].tag = "title"
    /\ h_arg.html.dom[1].text # <<>>
    /\ h_arg.html.dom[2].tag = "meta"
    /\ h_ret.value = <<"A", "c", "m", "e">>

\* The first label of a host, a leading "www." label left out
FirstLabel(host) ==
    SplitOn(IF StartsWith(host, <<"w", "w", "w", ".">>) THEN Drop(host,
            4) ELSE host, ".")[1]

\* C16 as the specification states it: for a page with neither a site name
\* tag nor a title, the name is the capitalized first label of the url's
\* host once a leading "www." label is stripped; a "www." elsewhere in the
\* host is left in place.  The code removes every "www." of the host.
C16_LeadingWwwOnly ==
    h_ret.returned /\ SiteNameTags = <<>> /\ TitleTags = <<>> =>
        h_ret.value = Capitalize(FirstLabel(UrlParse(h_arg.url).netloc))

-----------------------------------------------------------------------------
(* Properties of the url normalization of scrape_website *)

HTTPS_PREFIX == <<"h", "t", "t", "p", "s", ":", "/", "/">>

\* The seed names its scheme, whichever it is
HasScheme(s) == Contains(s, <<":", "/", "/">>)

\* The seed starts with http:// or https://
StartsHttp(s) == StartsWith(s, <<"h", "t", "t", "p", ":", "/",
        "/">>) \/ StartsWith(s, HTTPS_PREFIX)

\* s with https:// before it unless has says it has a scheme
WithScheme(s, has) == IF has THEN s ELSE HTTPS_PREFIX \o s

\* s without its last character when that is a slash
OneSlashOff(s) ==
    IF s # <<>> /\ s[Len(s)] = "/" THEN SubSeq(s, 1, Len(s) - 1) ELSE s

\* s up to its last character that is not a slash
AllSlashesOff(s) ==
    SubSeq(s, 1, CHOOSE i \in 0..Len(s) :
                    /\ i = 0 \/ s[i] # "/"
                    /\ \A j \in (i + 1)..Len(s) : s[j] = "/")

\* The seed holds a character other than a slash after its http:// or
\* https:// prefix, when it has one
NamesHost(s) ==
    \E i \in 1..Len(s) :
        /\ s[i] # "/"
        /\ StartsWith(s, HTTPS_PREFIX) => i > 8
        /\ StartsWith(s, <<"h", "t", "t", "p", ":", "/", "/">>) => i > 7

\* The crawl uses n wherever it names the site: the first call it makes is the
\* homepage fetch of n, and the corpus it returns has n as base_url and as the
\* url of its first page
CrawlUses(n) ==
    /\ url # <<>> => url = n
    /\ events # <<>> => IsFetch(events[1]) /\ events[1].url = n
    /\ pc = "done" =>
        /\ result.base_url = n
        /\ result.pages # <<>> => result.pages[1].url = n

\* C17 as the specification states it: the crawl uses the seed with https://
\* before it when it names no scheme and without one trailing slash, and
\* normalizing that value again changes nothing.
C17_OneTrailingSlash ==
    /\ CrawlUses(OneSlashOff(WithScheme(seed, HasScheme(seed))))
    /\ url # <<>> => NormalizeUrl(url) = url

\* C17: the crawl uses the seed with https:// before it unless it starts with
\* http:// or https://, and without any of its trailing slashes: that value
\* is the url of the homepage fetch, which is the first call made, the
\* base_url of the corpus and the url of its homepage record.  Normalizing it
\* again changes nothing exactly when the seed holds a character other than a
\* slash after its http:// or https:// prefix.
C17_AllTrailingSlashes ==
    /\ CrawlUses(AllSlashesOff(WithScheme(seed, StartsHttp(seed))))
    /\ url # <<>> => (NormalizeUrl(url) = url <=> NamesHost(seed))

\* A crawl of a seed with no scheme and two trailing slashes has returned
\* its pages
C17_Witness ==
    /\ pc = "done"
    /\ seed = <<"a", "c", "m", "e", ".", "c", "o", "m", "/", "/">>
    /\ result.base_url = BASE_URL
    /\ result.pages # <<>>
    /\ result.pages[1].url = BASE_URL

-----------------------------------------------------------------------------
(* Properties of the progress callback of scrape_website *)

\* C18 as the specification states it: the progress sink is an observer
\* only.  Whatever the sink given does with the messages, the crawl makes
\* its fetches and returns its corpus as it does without one: no crawl
\* stops at a message, and none ends without a corpus because of its sink.
C18_SinkHasNoEffect ==
    sink # "none" =>
        /\ pc # "raised"
        /\ pc \notin {"start", "render_missing", "render_thin", "loop"} =>
            pc = "done" /\ result # NoResult

-----------------------------------------------------------------------------
(* Properties of OutreachAgent.run_pipeline *)

\* run_pipeline has returned its result
PipelineReturned == agent_pc = "returned"

\* The scrape phase has ended with a corpus that has no pages
ScrapedNoPages ==
    /\ agent_pc \notin {"called", "scraping"}
    /\ pc = "done"
    /\ result.pages = <<>>

\* C19: when the scrape returns a corpus with no pages, run_pipeline returns
\* at once with that corpus, the stage "failed" and a non-empty error, and
\* the scrape is the only phase it has invoked: no analysis, no draft and no
\* send.
C19_EmptyScrapeFails ==
    ScrapedNoPages =>
        /\ PipelineReturned
        /\ pipeline.scraped = result
        /\ pipeline.stage = "failed"
        /\ Truthy(pipeline.error)
        /\ calls = <<"scrape">>
        /\ pipeline.analysis = None
        /\ pipeline.draft = None
        /\ pipeline.send_result = None

\* A run whose crawl found no homepage has returned
C19_Witness ==
    /\ PipelineReturned
    /\ ScrapedNoPages
    /\ Len(events) >= 1
    /\ pipeline.stage = "failed"
    /\ pipeline.error = Markup(FAILED_TO_SCRAPE)

PHASES == <<"scrape", "analyze", "draft", "send">>

\* The caller asked for the email to be sent and named a recipient
AskedToSend == auto_send /\ to_address # <<>>

\* self.send has been invoked
SendInvoked == \E i \in 1..Len(calls) : calls[i] = "send"

\* C20: the phases are invoked in the order scrape, analyze, draft, send.
\* The send is invoked only when auto_send is true and the recipient is not
\* empty, and only once the scrape has given pages, the analysis an analysis
\* and the draft a draft.  A run that returns without an error and without
\* having sent is one the caller did not ask to send, and it ends with the
\* stage "reviewing", its draft present and send_result None.
C20_SendOnlyWhenAsked ==
    /\ calls = SubSeq(PHASES, 1, Len(calls))
    /\ SendInvoked =>
        /\ AskedToSend
        /\ pipeline.scraped # None /\ pipeline.scraped.pages # <<>>
        /\ pipeline.analysis # None
        /\ pipeline.draft # None
    /\ PipelineReturned /\ pipeline.error = None /\ ~SendInvoked =>
        /\ ~AskedToSend
        /\ calls = SubSeq(PHASES, 1, 3)
        /\ pipeline.stage = "reviewing"
        /\ pipeline.draft # None
        /\ pipeline.send_result = None
    /\ PipelineReturned /\ pipeline.error = None /\ ~AskedToSend =>
        ~SendInvoked

\* A run with auto_send and no recipient has returned for review
C20_Witness ==
    /\ PipelineReturned
    /\ auto_send /\ to_address = <<>>
    /\ pipeline.stage = "reviewing"
    /\ pipeline.draft # None
    /\ calls = SubSeq(PHASES, 1, 3)

\* run_pipeline has ended, with its result or with an exception
PipelineEnded == agent_pc \in {"returned", "raised"}

\* C21 as the specification states it: no exception leaves run_pipeline.
\* Every run that ends returns its result, whose stage is "reviewing",
\* "complete" or "failed", and one whose last phase invoked gave no value
\* has the stage "failed" and the exception's message as its error.
C21_NoExceptionLeaves ==
    PipelineEnded =>
        /\ PipelineReturned
        /\ pipeline.stage \in {"reviewing", "complete", "failed"}
        /\ \/ calls = <<>>
           \/ calls = <<"scrape">> /\ pc = "raised"
           \/ calls = SubSeq(PHASES, 1, 2) /\ pipeline.analysis = None
           \/ calls = SubSeq(PHASES, 1, 3) /\ pipeline.draft = None
           \/ calls = PHASES /\ pipeline.send_result = None
           => pipeline.stage = "failed" /\ Truthy(pipeline.error)

SENT == Markup(<<"s", "e", "n", "t">>)

\* C22 as the specification states it: a run that has sent and returned has
\* the stage "complete" exactly when its send record says "sent", and for
\* any other status the stage "failed" and the record's error message as
\* its error.
C22_StageFollowsSendStatus ==
    PipelineReturned /\ pipeline.send_result # None =>
        /\ pipeline.stage = "complete" <=>
               pipeline.send_result.status = SENT
        /\ pipeline.send_result.status # SENT =>
            /\ pipeline.stage = "failed"
            /\ pipeline.error = pipeline.send_result.error_message

-----------------------------------------------------------------------------
(* Properties of OutreachAgent.run_batch *)

\* C23 as the specification states it: no batch is cut short, whatever
\* happens to one of its urls: run_batch does not end with an exception,
\* every result so far is the one of the url at its place, and the results
\* returned are as many as the urls.  No pipeline of a batch reaches the
\* send, and each result is one for review or a failed one with its error.
C23_OneResultPerUrl ==
    /\ batch_pc # "raised"
    /\ Len(results) <= Len(batch_urls)
    /\ \A i \in 1..Len(results) :
        /\ results[i].url = batch_urls[i]
        /\ results[i].send_result = None
        /\ results[i].stage \in {"reviewing", "failed"}
        /\ results[i].stage = "failed" <=> Truthy(results[i].error)
    /\ batch_pc = "returned" => Len(results) = Len(batch_urls)
    /\ agent_pc # "sending" /\ ~SendInvoked

-----------------------------------------------------------------------------
(* Properties of send_email *)

FAILED == Markup(<<"f", "a", "i", "l", "e", "d">>)

\* A direct call of send_email has ended, with a record or an exception
SendEmailEnded == h_fn = "send_email" /\ h_ret.returned

\* The exceptions of an SMTP session that send_email retries after
RETRIED == {"SMTPException", "OSError"}

\* C24: a call of send_email makes at most MAX_RETRIES SMTP attempts; every
\* attempt before the last one made ended with an SMTP or OS error other
\* than an authentication failure or a recipient refusal, so nothing is
\* attempted after a success or after one of those two; such an error at the
\* last attempt made means that MAX_RETRIES attempts were made; and the
\* record returned has the status "sent" exactly when an attempt succeeded,
\* and "failed" after an authentication failure or a recipient refusal
C24_RetryPolicy ==
    SendEmailEnded =>
        /\ h_ret.attempts <= MAX_RETRIES
        /\ \A i \in 1..(h_ret.attempts - 1) : h_arg.smtp[i] \in RETRIED
        /\ h_arg.smtp[h_ret.attempts] \in RETRIED
               => h_ret.attempts = MAX_RETRIES
        /\ h_ret.raised = "none" =>
            /\ h_ret.value.status = SENT
                   <=> \E i \in 1..h_ret.attempts : h_arg.smtp[i] = "sent"
            /\ h_arg.smtp[h_ret.attempts] \in {"SMTPAuthenticationError",
                                               "SMTPRecipientsRefused"}
                   => h_ret.value.status = FAILED

\* C30: a call of send_email that returns leaves the log file with the
\* records it had and the returned record after them; the status of that
\* record is "sent" or "failed", and it has an error message exactly when
\* the status is "failed"
C30_OneRecordPerSend ==
    (SendEmailEnded /\ h_ret.raised = "none") =>
        /\ log_file = LogFile("records",
                              Append(h_arg.file.records, h_ret.value))
        /\ h_ret.value.status \in {SENT, FAILED}
        /\ h_ret.value.error_message # None <=> h_ret.value.status = FAILED

\* A call that found records in the log and a failing write_text at its
\* first attempt has returned a record marked failed after three attempts
C30_Witness ==
    /\ SendEmailEnded /\ h_ret.raised = "none"
    /\ h_arg.file.records # <<>>
    /\ h_arg.writes[1] # "none"
    /\ h_ret.attempts = MAX_RETRIES
    /\ h_ret.value.status = FAILED

-----------------------------------------------------------------------------
(* Properties of the outreach log *)

\* A direct call of update_outreach_record has ended, on a log file that
\* could be read
UpdateEnded ==
    /\ h_fn = "update_outreach_record" /\ h_ret.returned
    /\ h_arg.file.kind # "undecodable"

IndexInRange == h_arg.index >= 0 /\ h_arg.index < Len(h_arg.file.records)

NamesDeclared == DOMAIN h_arg.fields \subseteq DOMAIN OutreachRecordDefaults

\* The record of the file before the call, and of the file after it, at
\* the list position i
RecordBefore(i) == h_arg.file.records[i]

RecordAfter(i) == log_file.records[i]

\* C25: update_outreach_record raises IndexError for an index that is not
\* one of 0..len-1 and ValueError for a field name that OutreachRecord does
\* not declare, and the log file is then as it was; when the call returns,
\* the file has as many records as before, the record at the index has the
\* values given for the named fields and its old values for the others, and
\* every other record is as it was
C25_UpdateAllOrNothing ==
    UpdateEnded =>
        /\ ~IndexInRange
               => h_ret.raised = "IndexError" /\ log_file = h_arg.file
        /\ (IndexInRange /\ ~NamesDeclared)
               => h_ret.raised = "ValueError" /\ log_file = h_arg.file
        /\ h_ret.raised = "none" =>
            /\ Len(log_file.records) = Len(h_arg.file.records)
            /\ \A i \in 1..Len(log_file.records) :
                \A f \in DOMAIN OutreachRecordDefaults :
                    RecordAfter(i)[f] =
                        IF i = h_arg.index + 1 /\ f \in DOMAIN h_arg.fields
                        THEN h_arg.fields[f] ELSE RecordBefore(i)[f]
            /\ h_ret.value = RecordAfter(h_arg.index + 1)

\* The second of two records has been updated with a declared field beside
\* an undeclared one, which raised ValueError
C25_Witness ==
    /\ UpdateEnded
    /\ Len(h_arg.file.records) = 2 /\ h_arg.index = 1
    /\ DOMAIN h_arg.fields = {"notes", "bogus"}
    /\ h_ret.raised = "ValueError"

\* A direct call of get_outreach_log has ended on a file that is missing or
\* that is not JSON
GetEndedNoJson ==
    /\ h_fn = "get_outreach_log" /\ h_ret.returned
    /\ h_arg.file.kind \in {"missing", "corrupt", "undecodable"}

\* A direct call of get_outreach_log has ended on a file that only
\* _log_outreach has written records to
GetEndedLogged ==
    /\ h_fn = "get_outreach_log" /\ h_ret.returned
    /\ h_arg.file.kind = "records"
    /\ \A i \in 1..Len(h_arg.file.records) : RecordBefore(i) \in LogRecords

\* C26: a call of _log_outreach that returns leaves the file with the records
\* it had, unchanged and in their order, and the logged record after them,
\* and get_outreach_log returns the records of the file in that order;
\* get_outreach_log returns the empty list for a file that is missing or is
\* not valid JSON
C26_AppendOnlyLog ==
    /\ (h_fn = "_log_outreach" /\ h_ret.raised = "none")
           => log_file = LogFile("records",
                                 Append(h_arg.file.records, h_arg.record))
    /\ GetEndedLogged
           => h_ret.raised = "none" /\ h_ret.value = h_arg.file.records
    /\ GetEndedNoJson => h_ret.raised = "none" /\ h_ret.value = <<>>

-----------------------------------------------------------------------------
(* Properties of the order of a crawl and of its render fallback *)

IsRender(e) == e.op = "render"

\* The renderings of the crawl, in the order they were made
Renders == SelectSeq(events, IsRender)

\* The place of the link discovery among the events, 0 before it
Discovered ==
    IF \E i \in 1..Len(events) : events[i].op = "discover"
    THEN CHOOSE i \in 1..Len(events) : events[i].op = "discover"
    ELSE 0

\* The event at the place i is a sleep followed at once by the fetch of the
\* page slept for
SleepThenFetch(i) ==
    /\ events[i].op = "sleep"
    /\ i < Len(events)
    /\ events[i + 1].op = "fetch" /\ events[i + 1].url = events[i].url

\* C27: the first thing a crawl waits for is the fetch of the homepage, with
\* no sleep before it; the link discovery comes once, after the homepage
\* phase, and after it come only pairs of one sleep and the fetch of one
\* secondary page, for the discovered links in their order; when the crawl
\* returns a corpus with pages every discovered link has been fetched; there
\* are at most MAX_PAGES - 1 links and so at most MAX_PAGES page records
C27_SequentialCrawl ==
    /\ events # <<>> =>
        /\ events[1].op = "fetch" /\ events[1].url = url
        /\ UrlsOf(SecondaryFetches)
               = [i \in 1..Len(SecondaryFetches) |-> linked_pages[i][1]]
    /\ \A i \in 2..Len(events) :
        /\ events[i].op \in {"sleep", "fetch"} => Discovered \in 1..(i - 1)
        /\ events[i].op = "sleep" => SleepThenFetch(i)
        /\ events[i].op = "fetch" => SleepThenFetch(i - 1)
        /\ events[i].op = "discover" => i = Discovered
    /\ (pc = "done" /\ result.pages # <<>>)
           => Len(SecondaryFetches) = Len(linked_pages)
    /\ Len(linked_pages) <= MAX_PAGES - 1
    /\ Len(pages) <= MAX_PAGES
    /\ pc = "done" => Len(result.pages) <= MAX_PAGES

\* A crawl has returned after the fetches of three secondary pages
C27_Witness ==
    /\ pc = "done"
    /\ Len(linked_pages) >= 3
    /\ Len(SecondaryFetches) = Len(linked_pages)

\* The homepage phase of the crawl has ended
HomepagePhaseOver == pc \in {"loop", "done"}

\* C28: the renderings of a crawl are all of the homepage url, come before
\* the link discovery and so before every secondary fetch, and are made only
\* with the fallback flag set; no exception leaves the crawl, and a
\* rendering that gave nothing counts as no content: the crawl returns the
\* empty corpus when the fetch gave nothing either, and else goes on with
\* the page fetched
C28_RenderHomepageOnly ==
    /\ pc # "raised"
    /\ \A i \in 1..Len(events) :
        events[i].op = "render" =>
            /\ use_pw
            /\ events[i].url = url /\ url = NormalizeUrl(seed)
            /\ Discovered = 0 \/ i < Discovered
    /\ \A i \in 2..Len(events) :
        (events[i].op = "render" /\ ~Truthy(events[i].ret)
             /\ HomepagePhaseOver) =>
            IF Truthy(events[i - 1].ret)
            THEN /\ pages # <<>>
                 /\ pages[1].content = ExtractText(Soup(events[i - 1].ret))
            ELSE pc = "done" /\ result.pages = <<>>

\* A crawl with the fallback on has returned after a rendering that failed
\* for its thin homepage and the fetch of a secondary page that gave no
\* page record
C28_Witness ==
    /\ pc = "done" /\ use_pw
    /\ Len(Renders) = 1 /\ ~Truthy(Renders[1].ret)
    /\ Truthy(events[1].ret)
    /\ \E i \in 1..Len(SecondaryFetches) : ~IsRecorded(SecondaryFetches[i])

\* C29: a crawl makes at most one rendering
C29_RenderAtMostOnce == Len(Renders) <= 1

=============================================================================
